---- MODULE Spec2Model ----
(***************************************************************************)
(* Singr Karaoke Connect: request lifecycle, tenant-scoped ownership,      *)
(* catalog import/dedup, API-key registry and the OpenKJ legacy adapter,   *)
(* modelled over the relational store the services read and write.         *)
(* Every handler is one action unless a specification says it interleaves. *)
(***************************************************************************)
EXTENDS Integers, Sequences, FiniteSets, TLC

VARIABLES venues, systems, songs, requests, history, apiKeys, serial, nextId, procs, last,
          config, now, tokens, denylist, userRevoked

vars == <<venues, systems, songs, requests, history, apiKeys, serial, nextId, procs, last,
          config, now, tokens, denylist, userRevoked>>

\* The environment's token settings, the clock, the tokens handed to clients and the
\* revoked:<jti> and user:revoked:<userId> keys of the Redis store.
authVars == <<config, now, tokens, denylist, userRevoked>>

\* ------------------------------------------------------------------ bounds
MaxRequests == 2
MaxSerial == 3
MaxSongId == 3
MaxTokens == 6
MaxSignedIn == 4
ClockFine == 900

\* ------------------------------------------------------------------ values
\* SQL NULL / a JavaScript null.
NULL == "null"

\* new Date(): some non-null timestamp.
NewDate == "date"

\* An object with no field set (every optional field undefined).
NoFields == [f \in {} |-> NULL]

\* Customer profiles (tenants); created at signup, never deleted.
Tenants == {"t1", "t2"}

\* Singer profiles and the user each belongs to.
Singers == {"s1"}

UserOf(singer) == <<"user", singer>>

\* HTTP status of each error class and of the success replies.
ValidationStatus == 400
AuthenticationStatus == 401
AuthorizationStatus == 403
NotFoundStatus == 404
ConflictStatus == 409
OkStatus == 200
CreatedStatus == 201
NoContentStatus == 204
InternalStatus == 500

\* Page size limits of parsePaginationParams.
DefaultLimit == 20
MaxLimit == 100

\* ------------------------------------------------------------------ text
\* A text is a sequence of one-character strings.
UpperChars == {"A", "B"}
LowerChars == {"a", "b"}
DigitChars == {"1"}
SpaceChars == {" ", "\t"}

\* String.prototype.toLowerCase on one character.
LowerChar(c) ==
  CASE c = "A" -> "a"
    [] c = "B" -> "b"
    [] OTHER -> c

toLowerCase(text) == [i \in 1..Len(text) |-> LowerChar(text[i])]

\* .replace(/[^a-z0-9\s]/g, '')
StripNonAlnum(text) ==
  SelectSeq(text, LAMBDA c : c \in LowerChars \cup DigitChars \cup SpaceChars)

\* .replace(/\s+/g, ' ')
RECURSIVE CollapseSpaces(_)
CollapseSpaces(text) ==
  IF text = <<>> THEN <<>>
  ELSE IF Head(text) \in SpaceChars
       THEN IF Len(text) > 1 /\ text[2] \in SpaceChars
            THEN CollapseSpaces(Tail(text))
            ELSE <<" ">> \o CollapseSpaces(Tail(text))
       ELSE <<Head(text)>> \o CollapseSpaces(Tail(text))

\* .trim()
RECURSIVE TrimLeft(_)
TrimLeft(text) ==
  IF text # <<>> /\ Head(text) \in SpaceChars THEN TrimLeft(Tail(text)) ELSE text

RECURSIVE TrimRight(_)
TrimRight(text) ==
  IF text # <<>> /\ text[Len(text)] \in SpaceChars
  THEN TrimRight(SubSeq(text, 1, Len(text) - 1))
  ELSE text

trim(text) == TrimRight(TrimLeft(text))

normalizeSongName(text) == trim(CollapseSpaces(StripNonAlnum(toLowerCase(text))))

\* `${artist} - ${title}`
Combined(artist, title) == artist \o <<" ", "-", " ">> \o title

\* `${artist}:${title}`.toLowerCase()
songFingerprint(artist, title) == toLowerCase(artist \o <<":">> \o title)

\* ------------------------------------------------------------------ store
dbVars == <<venues, systems, songs, requests, history, apiKeys, serial, nextId>>

\* prisma.venue.findFirst({ where: { id, customerProfileId } })
VenueOwnedBy(venueId, customerProfileId) ==
  {v \in venues : v.id = venueId /\ v.customerProfileId = customerProfileId}

\* prisma.venue.findUnique({ where: { id } })
VenueById(venueId) == {v \in venues : v.id = venueId}

\* The urlName lookup mutated: it never finds a venue.
VenueByUrlNameNone(urlName) == {}

\* prisma.venue.findUnique({ where: { urlName } })
VenueByUrlName(urlName) == {v \in venues : v.urlName = urlName}

\* The legacy venue lookup mutated: the tenant of the key is not part of the filter.
VenueByLegacyIdAnyTenant(openkjVenueId, customerProfileId) ==
  {v \in venues : v.openkjVenueId = openkjVenueId}

\* prisma.venue.findFirst({ where: { openkjVenueId, customerProfileId } })
VenueByLegacyId(openkjVenueId, customerProfileId) ==
  {v \in venues : v.openkjVenueId = openkjVenueId /\ v.customerProfileId = customerProfileId}

\* prisma.request.findFirst mutated: the where clause lost its venueId.
RequestOfAnyVenue(requestId, venueId) ==
  {r \in requests : r.id = requestId}

\* prisma.request.findFirst({ where: { id, venueId } })
RequestOfVenue(requestId, venueId) ==
  {r \in requests : r.id = requestId /\ r.venueId = venueId}

\* The tenant that owns a request, through its venue.
RequestOwner(r) == {v.customerProfileId : v \in VenueById(r.venueId)}

\* prisma.state.upsert mutated: the update branch writes the value it read back
\* unchanged (a read-then-write that lost its increment).
StateUpsertNoIncrement(customerProfileId) ==
  IF serial[customerProfileId] = 0 THEN 1 ELSE serial[customerProfileId]

\* prisma.state.upsert({ update: { serial: { increment: 1 } }, create: { serial: 1 } }):
\* the serial the row holds after the statement; 0 stands for "no State row yet".
StateUpsert(customerProfileId) ==
  IF serial[customerProfileId] = 0 THEN 1 ELSE serial[customerProfileId] + 1

\* ------------------------------------------------------------------ venues
\* The requests in flight; each holds the handler it runs, its arguments, the
\* statement it runs next and what its earlier statements returned.
Procs == {"p1", "p2"}
Idle == [pc |-> "idle"]

\* The serials handed out so far to the tenants of `ts`.
RECURSIVE SerialsTaken(_)
SerialsTaken(ts) ==
  IF ts = {} THEN 0
  ELSE LET t == CHOOSE t \in ts : TRUE IN serial[t] + SerialsTaken(ts \ {t})

\* Whether one more call may start: the serials taken and the ones the calls in
\* flight will take stay within MaxSerial.
SerialLeft ==
  SerialsTaken(Tenants) + Cardinality({p \in Procs : procs[p].pc = "venueUpsert"}) < MaxSerial

\* VenueService.createVenue, its first statement: prisma.venue.findUnique({ where:
\* { urlName } }) and the ConflictError on a hit.
CreateVenueCheck(p, caller, urlName, acceptingRequests) ==
  /\ procs[p] = Idle
  /\ SerialLeft
  /\ IF VenueByUrlName(urlName) # {}
     THEN /\ last' = [op |-> "createVenue", caller |-> caller, status |-> ConflictStatus,
                      urlName |-> urlName]
          /\ UNCHANGED <<dbVars, procs, authVars>>
     ELSE /\ procs' = [procs EXCEPT ![p] = [pc |-> "venueUpsert", caller |-> caller,
                                            urlName |-> urlName,
                                            acceptingRequests |-> acceptingRequests]]
          /\ UNCHANGED <<dbVars, last, authVars>>

\* VenueService.createVenue, its second statement: prisma.state.upsert.
CreateVenueUpsert(p) ==
  /\ procs[p].pc = "venueUpsert"
  /\ serial' = [serial EXCEPT ![procs[p].caller] = StateUpsert(procs[p].caller)]
  /\ UNCHANGED authVars
  /\ procs' = [procs EXCEPT ![p] = [@ EXCEPT !.pc = "venueCreate"]
                                     @@ [state |-> StateUpsert(procs[p].caller)]]
  /\ UNCHANGED <<venues, systems, songs, requests, history, apiKeys, nextId, last>>

\* VenueService.createVenue, its third statement: prisma.venue.create; urlName is a
\* unique key of the table (findUnique takes it), so the insert of a taken urlName
\* throws and the call answers 500.
CreateVenueInsert(p) ==
  /\ procs[p].pc = "venueCreate"
  /\ UNCHANGED authVars
  /\ procs' = [procs EXCEPT ![p] = Idle]
  /\ IF VenueByUrlName(procs[p].urlName) # {}
     THEN /\ last' = [op |-> "createVenue", caller |-> procs[p].caller,
                      status |-> InternalStatus]
          /\ UNCHANGED dbVars
     ELSE /\ venues' = venues \cup {[id |-> nextId.venue,
                                     customerProfileId |-> procs[p].caller,
                                     openkjVenueId |-> procs[p].state,
                                     urlName |-> procs[p].urlName,
                                     acceptingRequests |-> procs[p].acceptingRequests]}
          /\ nextId' = [nextId EXCEPT !.venue = @ + 1]
          /\ last' = [op |-> "createVenue", caller |-> procs[p].caller,
                      status |-> CreatedStatus, venueId |-> nextId.venue]
          /\ UNCHANGED <<systems, songs, requests, history, apiKeys, serial>>

\* VenueService.getVenue behind GET /v1/customer/venues/:venueId.
GetVenue(caller, venueId) ==
  /\ last' = IF VenueOwnedBy(venueId, caller) = {}
             THEN [op |-> "getVenue", caller |-> caller, status |-> NotFoundStatus,
                   venueId |-> venueId]
             ELSE [op |-> "getVenue", caller |-> caller, status |-> OkStatus,
                   venueId |-> venueId]
  /\ UNCHANGED <<dbVars, procs, authVars>>

\* The venue row after prisma.venue.update with `data`: an absent (undefined) field
\* is left as it is.
VenueUpdated(v, data) ==
  [v EXCEPT !.acceptingRequests =
      IF "acceptingRequests" \in DOMAIN data THEN data.acceptingRequests ELSE @]

\* VenueService.updateVenue behind PUT /v1/customer/venues/:venueId.
UpdateVenue(caller, venueId, data) ==
  IF VenueOwnedBy(venueId, caller) = {}
  THEN /\ last' = [op |-> "updateVenue", caller |-> caller, status |-> NotFoundStatus,
                   venueId |-> venueId]
       /\ UNCHANGED <<dbVars, procs, authVars>>
  ELSE /\ venues' = {IF v.id = venueId THEN VenueUpdated(v, data) ELSE v : v \in venues}
       /\ last' = [op |-> "updateVenue", caller |-> caller, status |-> OkStatus,
                   venueId |-> venueId, data |-> data]
       /\ UNCHANGED <<systems, songs, requests, history, apiKeys, serial, nextId, procs, authVars>>

\* VenueService.deleteVenue behind DELETE /v1/customer/venues/:venueId.  What
\* prisma.venue.delete does to the rows that reference the venue is the relational
\* schema's choice, which the service does not show: they go with the venue
\* (cascade), or the statement throws on them and the call answers 500.
DeleteVenue(caller, venueId) ==
  IF VenueOwnedBy(venueId, caller) = {}
  THEN /\ last' = [op |-> "deleteVenue", caller |-> caller, status |-> NotFoundStatus,
                   venueId |-> venueId]
       /\ UNCHANGED <<dbVars, procs, authVars>>
  ELSE \/ /\ venues' = {v \in venues : v.id # venueId}
          /\ requests' = {r \in requests : r.venueId # venueId}
          /\ history' = SelectSeq(history, LAMBDA h : h.venueId # venueId)
          /\ last' = [op |-> "deleteVenue", caller |-> caller, status |-> NoContentStatus,
                      venueId |-> venueId]
          /\ UNCHANGED <<systems, songs, apiKeys, serial, nextId, procs, authVars>>
       \/ /\ \E r \in requests : r.venueId = venueId
          /\ last' = [op |-> "deleteVenue", caller |-> caller, status |-> InternalStatus,
                      venueId |-> venueId]
          /\ UNCHANGED <<dbVars, procs, authVars>>

\* ------------------------------------------------------------------ API keys
\* createHash('sha256').update(key).digest('hex'): one-way and collision-free on the
\* keys of the model.
Sha256(key) == <<"sha256", key>>

\* The key texts a caller may present; generateApiKey draws from the same space.
KeyTexts == {"sk_a", "sk_b", "sk_c", "sk_d"}

\* verifyApiKey mutated: the lookup drops its status filter.
ActiveKeysAnyStatus(key) == {k \in apiKeys : k.apiKeyHash = Sha256(key)}

\* prisma.apiKey.findFirst({ where: { apiKeyHash: hash, status: 'active' } })
ActiveKeys(key) == {k \in apiKeys : k.apiKeyHash = Sha256(key) /\ k.status = "active"}

\* prisma.apiKey.update({ where: { id }, data: { lastUsedAt: new Date() } })
KeyUsed(apiKeyId) ==
  {IF k.id = apiKeyId THEN [k EXCEPT !.lastUsedAt = NewDate] ELSE k : k \in apiKeys}

\* authenticateApiKey rejects: no header, or verifyApiKey answers { valid: false }.
KeyRejected(key) == key = NULL \/ ActiveKeys(key) = {}

\* prisma.apiKey.findFirst({ where: { id: apiKeyId, customerProfileId } })
KeyOwnedBy(apiKeyId, customerProfileId) ==
  {k \in apiKeys : k.id = apiKeyId /\ k.customerProfileId = customerProfileId}

\* generateApiKey: 32 random bytes behind the prefix sk_; a draw repeats no text
\* whose hash is stored.
FreshKeyTexts == {key \in KeyTexts : \A k \in apiKeys : k.apiKeyHash # Sha256(key)}

\* ApiKeyService.createApiKey behind POST /v1/customer/api-keys.
CreateApiKey(caller, key) ==
  /\ key \in FreshKeyTexts
  /\ apiKeys' = apiKeys \cup {[id |-> nextId.key, customerProfileId |-> caller,
                               apiKeyHash |-> Sha256(key), status |-> "active",
                               lastUsedAt |-> NULL, revokedAt |-> NULL]}
  /\ nextId' = [nextId EXCEPT !.key = @ + 1]
  /\ last' = [op |-> "createApiKey", caller |-> caller, status |-> CreatedStatus,
              apiKeyId |-> nextId.key, key |-> key,
              result |-> [id |-> nextId.key, key |-> key, status |-> "active"]]
  /\ UNCHANGED <<venues, systems, songs, requests, history, serial, procs, authVars>>

\* The key queries mutated: no select, the whole row is returned.
KeySelectedWhole(k) == k

\* select: { id, description, status, lastUsedAt, createdAt, updatedAt } of getApiKey
\* and listApiKeys, over the columns the model keeps.
KeySelected(k) == [id |-> k.id, status |-> k.status, lastUsedAt |-> k.lastUsedAt]

\* ApiKeyService.listApiKeys behind GET /v1/customer/api-keys, for a page that holds
\* every row.
ListApiKeys(caller, filters) ==
  /\ LET found == {k \in apiKeys : /\ k.customerProfileId = caller
                                   /\ "status" \in DOMAIN filters => k.status = filters.status}
     IN last' = [op |-> "listApiKeys", caller |-> caller, status |-> OkStatus,
                 filters |-> filters,
                 result |-> [apiKeys |-> {KeySelected(k) : k \in found},
                             total |-> Cardinality(found)]]
  /\ UNCHANGED <<dbVars, procs, authVars>>

\* ApiKeyService.getApiKey behind GET /v1/customer/api-keys/:keyId.
GetApiKey(caller, apiKeyId) ==
  /\ last' = IF KeyOwnedBy(apiKeyId, caller) = {}
             THEN [op |-> "getApiKey", caller |-> caller, status |-> NotFoundStatus,
                   apiKeyId |-> apiKeyId, result |-> NoFields]
             ELSE LET apiKey == CHOOSE k \in KeyOwnedBy(apiKeyId, caller) : TRUE
                  IN [op |-> "getApiKey", caller |-> caller, status |-> OkStatus,
                      apiKeyId |-> apiKeyId, result |-> KeySelected(apiKey)]
  /\ UNCHANGED <<dbVars, procs, authVars>>

\* ApiKeyService.revokeApiKey behind DELETE /v1/customer/api-keys/:keyId.
RevokeApiKey(caller, apiKeyId) ==
  IF KeyOwnedBy(apiKeyId, caller) = {}
  THEN /\ last' = [op |-> "revokeApiKey", caller |-> caller, status |-> NotFoundStatus,
                   apiKeyId |-> apiKeyId, result |-> NoFields]
       /\ UNCHANGED <<dbVars, procs, authVars>>
  ELSE /\ apiKeys' = {IF k.id = apiKeyId
                      THEN [k EXCEPT !.status = "revoked", !.revokedAt = NewDate]
                      ELSE k : k \in apiKeys}
       /\ last' = [op |-> "revokeApiKey", caller |-> caller, status |-> NoContentStatus,
                   apiKeyId |-> apiKeyId, result |-> NoFields]
       /\ UNCHANGED <<venues, systems, songs, requests, history, serial, nextId, procs, authVars>>

\* ApiKeyService.verifyApiKey(key).
VerifyApiKey(key) ==
  IF ActiveKeys(key) = {}
  THEN /\ last' = [op |-> "verifyApiKey", key |-> key, valid |-> FALSE,
                   result |-> [valid |-> FALSE]]
       /\ UNCHANGED <<dbVars, procs, authVars>>
  ELSE LET apiKey == CHOOSE k \in ActiveKeys(key) : TRUE
       IN /\ apiKeys' = KeyUsed(apiKey.id)
          /\ last' = [op |-> "verifyApiKey", key |-> key, valid |-> TRUE,
                      result |-> [valid |-> TRUE,
                                  customerProfileId |-> apiKey.customerProfileId,
                                  apiKeyId |-> apiKey.id]]
          /\ UNCHANGED <<venues, systems, songs, requests, history, serial, nextId, procs, authVars>>

\* ------------------------------------------------------------------ requests
\* data.keyChange || 0
KeyChangeOrZero(data) ==
  IF "keyChange" \in DOMAIN data /\ data.keyChange # 0 THEN data.keyChange ELSE 0

\* data.notes, null when the caller sent none
NotesOrNull(data) == IF "notes" \in DOMAIN data THEN data.notes ELSE NULL

\* The row prisma.request.create inserts.
NewRequest(id, data) ==
  [id |-> id, venueId |-> data.venueId, singerProfileId |-> data.singerProfileId,
   submittedByUserId |-> data.submittedByUserId, artist |-> data.artist,
   title |-> data.title, keyChange |-> KeyChangeOrZero(data), notes |-> NotesOrNull(data),
   processed |-> FALSE, processedAt |-> NULL]

\* The row prisma.singerRequestHistory.create inserts.
NewHistory(data) ==
  [singerProfileId |-> data.singerProfileId, venueId |-> data.venueId,
   artist |-> data.artist, title |-> data.title, keyChange |-> KeyChangeOrZero(data),
   songFingerprint |-> songFingerprint(data.artist, data.title)]

\* The messages a request operation hands to WebSocketService.broadcastToVenue:
\* RequestService and the routes in front of it hold no call of getWebSocketService
\* or broadcastToVenue, so none.
NoBroadcast == {}

\* createRequest mutated: the acceptingRequests check is gone.
VenueClosedNever(venue) == FALSE

\* !venue.acceptingRequests
VenueClosed(venue) == ~venue.acceptingRequests

\* createRequest mutated: history is written for guests too.
WritesHistoryAlways(data) == TRUE

\* if (data.singerProfileId)
WritesHistory(data) == data.singerProfileId # NULL

\* RequestService.createRequest, called by `op` with `data`.
createRequest(op, data) ==
  /\ nextId.request <= MaxRequests
  /\ IF VenueById(data.venueId) = {}
     THEN /\ last' = [op |-> op, status |-> NotFoundStatus, data |-> data]
          /\ UNCHANGED <<dbVars, procs, authVars>>
     ELSE LET venue == CHOOSE v \in VenueById(data.venueId) : TRUE
              id == nextId.request
          IN IF VenueClosed(venue)
             THEN /\ last' = [op |-> op, status |-> AuthorizationStatus, data |-> data]
                  /\ UNCHANGED <<dbVars, procs, authVars>>
             ELSE /\ requests' = requests \cup {NewRequest(id, data)}
                  /\ nextId' = [nextId EXCEPT !.request = id + 1]
                  /\ history' = IF WritesHistory(data)
                                THEN Append(history, NewHistory(data))
                                ELSE history
                  /\ last' = [op |-> op, status |-> CreatedStatus, data |-> data,
                              request |-> NewRequest(id, data), pushed |-> NoBroadcast]
                  /\ UNCHANGED <<venues, systems, songs, apiKeys, serial, procs, authVars>>

\* POST /v1/public/venues/:urlName/requests (guest submission).
SubmitGuestRequest(urlName, body) ==
  IF VenueByUrlName(urlName) = {}
  THEN /\ nextId.request <= MaxRequests
       /\ last' = [op |-> "guestRequest", status |-> NotFoundStatus, urlName |-> urlName]
       /\ UNCHANGED <<dbVars, procs, authVars>>
  ELSE LET venue == CHOOSE v \in VenueByUrlName(urlName) : TRUE
       IN createRequest("guestRequest",
            [f \in DOMAIN body \cup {"venueId", "singerProfileId", "submittedByUserId"} |->
               CASE f = "venueId" -> venue.id
                 [] f = "singerProfileId" -> NULL
                 [] f = "submittedByUserId" -> NULL
                 [] OTHER -> body[f]])

\* POST /v1/singer/venues/:venueUrlName/requests (authenticated singer).
SubmitSingerRequest(singer, urlName, body) ==
  IF VenueByUrlName(urlName) = {}
  THEN /\ nextId.request <= MaxRequests
       /\ last' = [op |-> "singerRequest", status |-> NotFoundStatus, urlName |-> urlName]
       /\ UNCHANGED <<dbVars, procs, authVars>>
  ELSE LET venue == CHOOSE v \in VenueByUrlName(urlName) : TRUE
       IN createRequest("singerRequest",
            [f \in DOMAIN body \cup {"venueId", "singerProfileId", "submittedByUserId"} |->
               CASE f = "venueId" -> venue.id
                 [] f = "singerProfileId" -> singer
                 [] f = "submittedByUserId" -> UserOf(singer)
                 [] OTHER -> body[f]])

\* ListWhere mutated: the processed filter is not applied.
ListWhereUnfiltered(venueId, filters) ==
  {r \in requests : r.venueId = venueId}

\* The `where` of listVenueRequests: { venueId } plus processed when the filter has it.
ListWhere(venueId, filters) ==
  {r \in requests : /\ r.venueId = venueId
                    /\ "processed" \in DOMAIN filters => r.processed = filters.processed}

\* findMany({ where, take: limit, skip: offset, orderBy: { requestedAt: 'asc' } }) over
\* the rows the where selects.  Ids grow with requestedAt, so a row's place in the
\* order is the number of selected rows with a smaller id.
Page(rows, limit, offset) ==
  {r \in rows : LET place == Cardinality({x \in rows : x.id < r.id})
                IN offset <= place /\ place < offset + limit}

\* RequestService.listVenueRequests behind GET /v1/customer/venues/:venueId/requests
\* (the route of the service-based customer module).
ListVenueRequests(caller, venueId, filters) ==
  /\ last' = IF VenueOwnedBy(venueId, caller) = {}
             THEN [op |-> "listVenueRequests", caller |-> caller, status |-> NotFoundStatus,
                   venueId |-> venueId, filters |-> filters]
             ELSE [op |-> "listVenueRequests", caller |-> caller, status |-> OkStatus,
                   venueId |-> venueId, filters |-> filters,
                   requests |-> Page(ListWhere(venueId, filters),
                                     filters.limit, filters.offset),
                   total |-> Cardinality(ListWhere(venueId, filters))]
  /\ UNCHANGED <<dbVars, procs, authVars>>

\* GET /venues/:venueId/requests of routes/customer.ts: pending requests of a venue.
CustomerVenueRequests(caller, venueId) ==
  /\ last' = IF VenueOwnedBy(venueId, caller) = {}
             THEN [op |-> "customerVenueRequests", caller |-> caller,
                   status |-> AuthorizationStatus, venueId |-> venueId]
             ELSE [op |-> "customerVenueRequests", caller |-> caller, status |-> OkStatus,
                   venueId |-> venueId,
                   requests |-> {r \in requests : r.venueId = venueId /\ ~r.processed}]
  /\ UNCHANGED <<dbVars, procs, authVars>>

\* data.processed ? new Date() : null
ProcessedAtFor(data) ==
  IF "processed" \in DOMAIN data /\ data.processed THEN NewDate ELSE NULL

\* The row after prisma.request.update({ data: { processed, notes, processedAt } }):
\* an undefined processed or notes is left as it is, processedAt is always written.
RequestUpdated(r, data) ==
  [r EXCEPT !.processed = IF "processed" \in DOMAIN data THEN data.processed ELSE @,
            !.notes = IF "notes" \in DOMAIN data THEN data.notes ELSE @,
            !.processedAt = ProcessedAtFor(data)]

\* RequestService.updateRequest behind PATCH /v1/customer/venues/:venueId/requests/:requestId.
UpdateRequest(caller, venueId, requestId, data) ==
  IF VenueOwnedBy(venueId, caller) = {} \/ RequestOfVenue(requestId, venueId) = {}
  THEN /\ last' = [op |-> "updateRequest", caller |-> caller, status |-> NotFoundStatus,
                   venueId |-> venueId, requestId |-> requestId]
       /\ UNCHANGED <<dbVars, procs, authVars>>
  ELSE /\ requests' = {IF r.id = requestId THEN RequestUpdated(r, data) ELSE r : r \in requests}
       /\ last' = [op |-> "updateRequest", caller |-> caller, status |-> OkStatus,
                   venueId |-> venueId, requestId |-> requestId, data |-> data,
                   pushed |-> NoBroadcast]
       /\ UNCHANGED <<venues, systems, songs, history, apiKeys, serial, nextId, procs, authVars>>

\* RequestService.deleteRequest behind DELETE /v1/customer/venues/:venueId/requests/:requestId.
DeleteRequest(caller, venueId, requestId) ==
  IF VenueOwnedBy(venueId, caller) = {} \/ RequestOfVenue(requestId, venueId) = {}
  THEN /\ last' = [op |-> "deleteRequest", caller |-> caller, status |-> NotFoundStatus,
                   venueId |-> venueId, requestId |-> requestId]
       /\ UNCHANGED <<dbVars, procs, authVars>>
  ELSE /\ requests' = {r \in requests : r.id # requestId}
       /\ last' = [op |-> "deleteRequest", caller |-> caller, status |-> NoContentStatus,
                   venueId |-> venueId, requestId |-> requestId, pushed |-> NoBroadcast]
       /\ UNCHANGED <<venues, systems, songs, history, apiKeys, serial, nextId, procs, authVars>>

\* POST /v1/openkj/venues/:venueId/requests/:requestId/process behind authenticateApiKey.
OpenkjProcessRequest(key, openkjVenueId, requestId) ==
  IF KeyRejected(key)
  THEN /\ last' = [op |-> "openkjProcess", key |-> key, status |-> AuthenticationStatus,
                   reads |-> {}, writes |-> {}]
       /\ UNCHANGED <<dbVars, procs, authVars>>
  ELSE LET apiKey == CHOOSE k \in ActiveKeys(key) : TRUE
           customerProfileId == apiKey.customerProfileId
           venue == VenueByLegacyId(openkjVenueId, customerProfileId)
           found == {r \in requests : \E v \in venue : r.id = requestId /\ r.venueId = v.id}
       IN /\ apiKeys' = KeyUsed(apiKey.id)
          /\ IF found = {}
             THEN /\ last' = [op |-> "openkjProcess", key |-> key, status |-> NotFoundStatus,
                              caller |-> customerProfileId, openkjVenueId |-> openkjVenueId,
                              reads |-> {v.customerProfileId : v \in venue}, writes |-> {}]
                  /\ UNCHANGED requests
             ELSE /\ requests' = {IF r.id = requestId
                                  THEN [r EXCEPT !.processed = TRUE, !.processedAt = NewDate]
                                  ELSE r : r \in requests}
                  /\ last' = [op |-> "openkjProcess", key |-> key, status |-> OkStatus,
                              caller |-> customerProfileId, requestId |-> requestId,
                              openkjVenueId |-> openkjVenueId,
                              reads |-> {v.customerProfileId : v \in venue},
                              writes |-> UNION {RequestOwner(r) : r \in
                                          {q \in requests : q.id = requestId}}]
          /\ UNCHANGED <<venues, systems, songs, history, serial, nextId, procs, authVars>>

\* ------------------------------------------------------------------ systems
\* prisma.system.findFirst({ where: { id, customerProfileId } })
SystemOwnedBy(systemId, customerProfileId) ==
  {y \in systems : y.id = systemId /\ y.customerProfileId = customerProfileId}

\* prisma.system.findFirst({ where: { customerProfileId, openkjSystemId } })
SystemByLegacyId(openkjSystemId, customerProfileId) ==
  {y \in systems : y.openkjSystemId = openkjSystemId /\ y.customerProfileId = customerProfileId}

\* where: { customerProfileId, openkjSystemId } on songDb
SongsOf(rows, customerProfileId, openkjSystemId) ==
  {g \in rows : g.customerProfileId = customerProfileId /\ g.openkjSystemId = openkjSystemId}

\* prisma.songDb.findFirst({ where: { id, customerProfileId } })
SongOwnedBy(songId, customerProfileId) ==
  {g \in songs : g.id = songId /\ g.customerProfileId = customerProfileId}

\* SystemService.createSystem, its first statement: prisma.state.upsert.
CreateSystemUpsert(p, caller, name) ==
  /\ procs[p] = Idle
  /\ SerialLeft
  /\ serial' = [serial EXCEPT ![caller] = StateUpsert(caller)]
  /\ UNCHANGED authVars
  /\ procs' = [procs EXCEPT ![p] = [pc |-> "systemCreate", caller |-> caller,
                                    name |-> name, state |-> StateUpsert(caller)]]
  /\ UNCHANGED <<venues, systems, songs, requests, history, apiKeys, nextId, last>>

\* SystemService.createSystem, its second statement: prisma.system.create, and the
\* 201 of POST /v1/customer/systems.
CreateSystemInsert(p) ==
  /\ procs[p].pc = "systemCreate"
  /\ UNCHANGED authVars
  /\ procs' = [procs EXCEPT ![p] = Idle]
  /\ systems' = systems \cup {[id |-> nextId.system, customerProfileId |-> procs[p].caller,
                               openkjSystemId |-> procs[p].state, name |-> procs[p].name]}
  /\ nextId' = [nextId EXCEPT !.system = @ + 1]
  /\ last' = [op |-> "createSystem", caller |-> procs[p].caller, status |-> CreatedStatus,
              systemId |-> nextId.system]
  /\ UNCHANGED <<venues, songs, requests, history, apiKeys, serial>>

\* SystemService.getSystem behind GET /v1/customer/systems/:systemId.
GetSystem(caller, systemId) ==
  /\ last' = IF SystemOwnedBy(systemId, caller) = {}
             THEN [op |-> "getSystem", caller |-> caller, status |-> NotFoundStatus,
                   systemId |-> systemId]
             ELSE LET system == CHOOSE y \in SystemOwnedBy(systemId, caller) : TRUE
                  IN [op |-> "getSystem", caller |-> caller, status |-> OkStatus,
                      systemId |-> systemId,
                      songCount |-> Cardinality(SongsOf(songs, caller, system.openkjSystemId))]
  /\ UNCHANGED <<dbVars, procs, authVars>>

\* SystemService.updateSystem behind PUT /v1/customer/systems/:systemId.
UpdateSystem(caller, systemId, input) ==
  IF SystemOwnedBy(systemId, caller) = {}
  THEN /\ last' = [op |-> "updateSystem", caller |-> caller, status |-> NotFoundStatus,
                   systemId |-> systemId]
       /\ UNCHANGED <<dbVars, procs, authVars>>
  ELSE /\ systems' = {IF y.id = systemId /\ "name" \in DOMAIN input
                      THEN [y EXCEPT !.name = input.name] ELSE y : y \in systems}
       /\ last' = [op |-> "updateSystem", caller |-> caller, status |-> OkStatus,
                   systemId |-> systemId]
       /\ UNCHANGED <<venues, songs, requests, history, apiKeys, serial, nextId, procs, authVars>>

\* deleteSystem mutated: the song count is not looked at.
SongCountIgnored(system) == 0

\* prisma.songDb.count({ where: { customerProfileId, openkjSystemId } }) of deleteSystem
SongCount(system) ==
  Cardinality(SongsOf(songs, system.customerProfileId, system.openkjSystemId))

\* SystemService.deleteSystem behind DELETE /v1/customer/systems/:systemId.
DeleteSystem(caller, systemId) ==
  IF SystemOwnedBy(systemId, caller) = {}
  THEN /\ last' = [op |-> "deleteSystem", caller |-> caller, status |-> NotFoundStatus,
                   systemId |-> systemId]
       /\ UNCHANGED <<dbVars, procs, authVars>>
  ELSE LET system == CHOOSE y \in SystemOwnedBy(systemId, caller) : TRUE
       IN IF SongCount(system) > 0
          THEN /\ last' = [op |-> "deleteSystem", caller |-> caller,
                           status |-> ConflictStatus, systemId |-> systemId]
               /\ UNCHANGED <<dbVars, procs, authVars>>
          ELSE /\ systems' = {y \in systems : y.id # systemId}
               /\ last' = [op |-> "deleteSystem", caller |-> caller,
                           status |-> NoContentStatus, systemId |-> systemId]
               /\ UNCHANGED <<venues, songs, requests, history, apiKeys, serial, nextId, procs, authVars>>

\* ------------------------------------------------------------------ catalog
\* SongDbService.getSong behind GET /v1/customer/songdb/:songId.
GetSong(caller, songId) ==
  /\ last' = IF SongOwnedBy(songId, caller) = {}
             THEN [op |-> "getSong", caller |-> caller, status |-> NotFoundStatus,
                   songId |-> songId]
             ELSE [op |-> "getSong", caller |-> caller, status |-> OkStatus,
                   songId |-> songId]
  /\ UNCHANGED <<dbVars, procs, authVars>>

\* SongDbService.deleteSong behind DELETE /v1/customer/songdb/:songId.
DeleteSong(caller, songId) ==
  IF SongOwnedBy(songId, caller) = {}
  THEN /\ last' = [op |-> "deleteSong", caller |-> caller, status |-> NotFoundStatus,
                   songId |-> songId]
       /\ UNCHANGED <<dbVars, procs, authVars>>
  ELSE /\ songs' = {g \in songs : g.id # songId}
       /\ last' = [op |-> "deleteSong", caller |-> caller, status |-> NoContentStatus,
                   songId |-> songId]
       /\ UNCHANGED <<venues, systems, requests, history, apiKeys, serial, nextId, procs, authVars>>

\* SongDbService.deleteBulkSongs behind DELETE /v1/customer/systems/:systemId/songs.
DeleteBulkSongs(caller, systemId) ==
  IF SystemOwnedBy(systemId, caller) = {}
  THEN /\ last' = [op |-> "deleteBulkSongs", caller |-> caller, status |-> NotFoundStatus,
                   systemId |-> systemId]
       /\ UNCHANGED <<dbVars, procs, authVars>>
  ELSE LET system == CHOOSE y \in SystemOwnedBy(systemId, caller) : TRUE
           gone == SongsOf(songs, caller, system.openkjSystemId)
       IN /\ songs' = songs \ gone
          /\ last' = [op |-> "deleteBulkSongs", caller |-> caller, status |-> OkStatus,
                      systemId |-> systemId, deletedCount |-> Cardinality(gone)]
          /\ UNCHANGED <<venues, systems, requests, history, apiKeys, serial, nextId, procs, authVars>>

\* bulkImportSongs mutated: the existence check never finds a row.
ExistingSongNone(rows, customerProfileId, openkjSystemId, normalizedCombined) == {}

\* prisma.songDb.findFirst mutated: the where clause lost its customerProfileId.
ExistingSongAnyTenant(rows, customerProfileId, openkjSystemId, normalizedCombined) ==
  {g \in rows : g.openkjSystemId = openkjSystemId /\ g.normalizedCombined = normalizedCombined}

\* prisma.songDb.findFirst({ where: { customerProfileId, openkjSystemId, normalizedCombined } })
ExistingSong(rows, customerProfileId, openkjSystemId, normalizedCombined) ==
  {g \in SongsOf(rows, customerProfileId, openkjSystemId) :
     g.normalizedCombined = normalizedCombined}

\* The row prisma.songDb.create inserts for `song`.
NewSong(id, customerProfileId, openkjSystemId, song) ==
  [id |-> id, customerProfileId |-> customerProfileId, openkjSystemId |-> openkjSystemId,
   artist |-> song.artist, title |-> song.title,
   combined |-> Combined(song.artist, song.title),
   normalizedCombined |-> normalizeSongName(Combined(song.artist, song.title))]

\* The loop body of bulkImportSongs mutated: a duplicate overwrites the spelling of
\* the stored entry.
ImportOneOverwriting(acc, customerProfileId, openkjSystemId, song, i, failing) ==
  LET existing == ExistingSong(acc.rows, customerProfileId, openkjSystemId,
                               normalizeSongName(Combined(song.artist, song.title)))
  IN IF i \in failing
     THEN [acc EXCEPT !.errors = @ + 1, !.outcome = Append(@, "error")]
     ELSE IF existing # {}
          THEN [acc EXCEPT !.rows = (@ \ existing)
                             \cup {[g EXCEPT !.artist = song.artist, !.title = song.title,
                                             !.combined = Combined(song.artist, song.title)] :
                                     g \in existing},
                           !.skipped = @ + 1, !.outcome = Append(@, "skipped")]
          ELSE [acc EXCEPT !.rows = @ \cup {NewSong(acc.nextSong, customerProfileId,
                                                   openkjSystemId, song)},
                           !.nextSong = @ + 1,
                           !.imported = @ + 1,
                           !.outcome = Append(@, "imported")]

\* The loop body of bulkImportSongs mutated: once a song has failed the rest of the
\* batch is left unprocessed.
ImportOneAborting(acc, customerProfileId, openkjSystemId, song, i, failing) ==
  IF acc.errors > 0 THEN acc
  ELSE IF i \in failing
       THEN [acc EXCEPT !.errors = @ + 1, !.outcome = Append(@, "error")]
       ELSE IF ExistingSong(acc.rows, customerProfileId, openkjSystemId,
                            normalizeSongName(Combined(song.artist, song.title))) # {}
            THEN [acc EXCEPT !.skipped = @ + 1, !.outcome = Append(@, "skipped")]
            ELSE [acc EXCEPT !.rows = @ \cup {NewSong(acc.nextSong, customerProfileId,
                                                     openkjSystemId, song)},
                             !.nextSong = @ + 1,
                             !.imported = @ + 1,
                             !.outcome = Append(@, "imported")]

\* One pass of the loop body of bulkImportSongs over `song`, the i-th of the batch;
\* `failing` holds the positions at which a store statement throws.
ImportOne(acc, customerProfileId, openkjSystemId, song, i, failing) ==
  IF i \in failing
  THEN [acc EXCEPT !.errors = @ + 1, !.outcome = Append(@, "error")]
  ELSE IF ExistingSong(acc.rows, customerProfileId, openkjSystemId,
                       normalizeSongName(Combined(song.artist, song.title))) # {}
       THEN [acc EXCEPT !.skipped = @ + 1, !.outcome = Append(@, "skipped")]
       ELSE [acc EXCEPT !.rows = @ \cup {NewSong(acc.nextSong, customerProfileId,
                                                openkjSystemId, song)},
                        !.nextSong = @ + 1,
                        !.imported = @ + 1,
                        !.outcome = Append(@, "imported")]

\* The loops of bulkImportSongs over songs[1..n], from the rows and counters in `start`.
RECURSIVE ImportLoop(_, _, _, _, _, _)
ImportLoop(start, customerProfileId, openkjSystemId, list, n, failing) ==
  IF n = 0 THEN start
  ELSE LET acc == ImportLoop(start, customerProfileId, openkjSystemId, list, n - 1, failing)
       IN ImportOne(acc, customerProfileId, openkjSystemId, list[n], n, failing)

\* let imported = 0; let skipped = 0; let errors = 0 over the stored rows.
ImportStart == [rows |-> songs, nextSong |-> nextId.song, imported |-> 0, skipped |-> 0,
                errors |-> 0, outcome |-> <<>>]

\* Whether a call repeats the arguments of the import that ran just before it: the
\* name of that run's operation, or "none".
ReplayOf(caller, openkjSystemId, list) ==
  IF /\ last.op \in {"bulkImport", "bulkImportInterrupted"}
     /\ "list" \in DOMAIN last
     /\ last.caller = caller
     /\ last.openkjSystemId = openkjSystemId
     /\ last.list = list
  THEN last.op ELSE "none"

\* SongDbService.bulkImportSongs behind POST /v1/customer/songdb/import; the store
\* statements of the positions in `failing` throw.
BulkImportSongs(caller, openkjSystemId, list, failing) ==
  IF SystemByLegacyId(openkjSystemId, caller) = {}
  THEN /\ last' = [op |-> "bulkImport", caller |-> caller, status |-> NotFoundStatus,
                   openkjSystemId |-> openkjSystemId]
       /\ UNCHANGED <<dbVars, procs, authVars>>
  ELSE LET done == ImportLoop(ImportStart, caller, openkjSystemId, list, Len(list), failing)
       IN /\ songs' = done.rows
          /\ nextId' = [nextId EXCEPT !.song = done.nextSong]
          /\ last' = [op |-> "bulkImport", caller |-> caller, status |-> OkStatus,
                      openkjSystemId |-> openkjSystemId, list |-> list,
                      imported |-> done.imported, skipped |-> done.skipped,
                      errors |-> done.errors, outcome |-> done.outcome,
                      failing |-> failing,
                      replay |-> ReplayOf(caller, openkjSystemId, list)]
          /\ UNCHANGED <<venues, systems, requests, history, apiKeys, serial, procs, authVars>>

\* bulkImportSongs cut short (the process dies) after n songs of the batch: the rows
\* written so far stay, no reply is sent.
BulkImportInterrupted(caller, openkjSystemId, list, n) ==
  /\ SystemByLegacyId(openkjSystemId, caller) # {}
  /\ n < Len(list)
  /\ LET done == ImportLoop(ImportStart, caller, openkjSystemId, list, n, {})
     IN /\ songs' = done.rows
        /\ nextId' = [nextId EXCEPT !.song = done.nextSong]
        /\ last' = [op |-> "bulkImportInterrupted", caller |-> caller,
                    openkjSystemId |-> openkjSystemId, list |-> list, done |-> n,
                    before |-> ImportStart]
        /\ UNCHANGED <<venues, systems, requests, history, apiKeys, serial, procs, authVars>>

\* select: { artist: true, title: true } over `rows`: how many times each
\* { artist, title } is returned (the order of the array is dropped here).
Selected(rows) ==
  LET pick(g) == [artist |-> g.artist, title |-> g.title]
  IN [e \in {pick(g) : g \in rows} |-> Cardinality({g \in rows : pick(g) = e})]

\* SongDbService.exportSongs behind GET /v1/customer/systems/:systemId/songs/export.
ExportSongs(caller, systemId) ==
  /\ last' = IF SystemOwnedBy(systemId, caller) = {}
             THEN [op |-> "exportSongs", caller |-> caller, status |-> NotFoundStatus,
                   systemId |-> systemId]
             ELSE LET system == CHOOSE y \in SystemOwnedBy(systemId, caller) : TRUE
                  IN [op |-> "exportSongs", caller |-> caller, status |-> OkStatus,
                      systemId |-> systemId,
                      songs |-> Selected(SongsOf(songs, caller, system.openkjSystemId))]
  /\ UNCHANGED <<dbVars, procs, authVars>>

\* ------------------------------------------------------------------ legacy sync (OpenKJ)
\* The tenants whose rows a query of a handler returned, or a statement changed.
OwnersOf(rows) == {x.customerProfileId : x \in rows}

\* The reply of authenticateApiKey to a request it turns away.
KeyRequired(op, key) ==
  [op |-> op, key |-> key, status |-> AuthenticationStatus, reads |-> {}, writes |-> {}]

\* GET /v1/openkj/venues/:venueId behind authenticateApiKey.
OpenkjGetVenue(key, openkjVenueId) ==
  IF KeyRejected(key)
  THEN /\ last' = KeyRequired("openkjGetVenue", key)
       /\ UNCHANGED <<dbVars, procs, authVars>>
  ELSE LET apiKey == CHOOSE k \in ActiveKeys(key) : TRUE
           customerProfileId == apiKey.customerProfileId
           venue == VenueByLegacyId(openkjVenueId, customerProfileId)
       IN /\ apiKeys' = KeyUsed(apiKey.id)
          /\ last' = IF venue = {}
                     THEN [op |-> "openkjGetVenue", key |-> key, status |-> NotFoundStatus,
                           caller |-> customerProfileId, reads |-> {}, writes |-> {}]
                     ELSE LET v == CHOOSE v \in venue : TRUE
                          IN [op |-> "openkjGetVenue", key |-> key, status |-> OkStatus,
                              caller |-> customerProfileId, venue_id |-> v.openkjVenueId,
                              url_name |-> v.urlName,
                              accepting_requests |-> v.acceptingRequests,
                              reads |-> OwnersOf(venue), writes |-> {}]
          /\ UNCHANGED <<venues, systems, songs, requests, history, serial, nextId, procs, authVars>>

\* GET /v1/openkj/systems/:systemId/songs behind authenticateApiKey, for a page that
\* holds every row.
OpenkjGetSongs(key, openkjSystemId) ==
  IF KeyRejected(key)
  THEN /\ last' = KeyRequired("openkjGetSongs", key)
       /\ UNCHANGED <<dbVars, procs, authVars>>
  ELSE LET apiKey == CHOOSE k \in ActiveKeys(key) : TRUE
           customerProfileId == apiKey.customerProfileId
           system == SystemByLegacyId(openkjSystemId, customerProfileId)
       IN /\ apiKeys' = KeyUsed(apiKey.id)
          /\ last' = IF system = {}
                     THEN [op |-> "openkjGetSongs", key |-> key, status |-> NotFoundStatus,
                           caller |-> customerProfileId, reads |-> {}, writes |-> {}]
                     ELSE LET y == CHOOSE y \in system : TRUE
                              found == SongsOf(songs, customerProfileId, y.openkjSystemId)
                          IN [op |-> "openkjGetSongs", key |-> key, status |-> OkStatus,
                              caller |-> customerProfileId, system_id |-> y.openkjSystemId,
                              total |-> Cardinality(found),
                              songs |-> {[song_id |-> g.id, artist |-> g.artist,
                                          title |-> g.title, combined |-> g.combined] :
                                           g \in found},
                              reads |-> OwnersOf(system) \cup OwnersOf(found),
                              writes |-> {}]
          /\ UNCHANGED <<venues, systems, songs, requests, history, serial, nextId, procs, authVars>>

\* The sync handler's normalisation mutated: the text is not lower-cased first.
SyncNormalizedAsTyped(combined) == trim(CollapseSpaces(StripNonAlnum(combined)))

\* combined.toLowerCase().replace(/[^a-z0-9\s]/g, '').replace(/\s+/g, ' ').trim() of
\* the sync handler.
SyncNormalized(combined) == trim(CollapseSpaces(StripNonAlnum(toLowerCase(combined))))

\* One pass of the loop body of the sync handler over `song`.
SyncOne(acc, customerProfileId, openkjSystemId, song) ==
  LET combined == Combined(song.artist, song.title)
      normalizedCombined == SyncNormalized(combined)
      existing == {g \in acc.rows : /\ g.customerProfileId = customerProfileId
                                    /\ g.openkjSystemId = openkjSystemId
                                    /\ g.normalizedCombined = normalizedCombined}
  IN IF existing # {}
     THEN [acc EXCEPT !.skipped = @ + 1, !.found = @ \cup existing]
     ELSE [acc EXCEPT !.rows = @ \cup {[id |-> acc.nextSong,
                                        customerProfileId |-> customerProfileId,
                                        openkjSystemId |-> openkjSystemId,
                                        artist |-> song.artist, title |-> song.title,
                                        combined |-> combined,
                                        normalizedCombined |-> normalizedCombined]},
                      !.nextSong = @ + 1,
                      !.imported = @ + 1]

\* for (const song of songs) of the sync handler over songs[1..n].
RECURSIVE SyncLoop(_, _, _, _, _)
SyncLoop(start, customerProfileId, openkjSystemId, list, n) ==
  IF n = 0 THEN start
  ELSE LET acc == SyncLoop(start, customerProfileId, openkjSystemId, list, n - 1)
       IN SyncOne(acc, customerProfileId, openkjSystemId, list[n])

\* POST /v1/openkj/systems/:systemId/songs/sync behind authenticateApiKey.
OpenkjSyncSongs(key, openkjSystemId, list) ==
  IF KeyRejected(key)
  THEN /\ last' = KeyRequired("openkjSync", key)
       /\ UNCHANGED <<dbVars, procs, authVars>>
  ELSE LET apiKey == CHOOSE k \in ActiveKeys(key) : TRUE
           customerProfileId == apiKey.customerProfileId
           system == SystemByLegacyId(openkjSystemId, customerProfileId)
       IN /\ apiKeys' = KeyUsed(apiKey.id)
          /\ IF Len(list) = 0
             THEN /\ last' = [op |-> "openkjSync", key |-> key, status |-> ValidationStatus,
                              caller |-> customerProfileId, reads |-> {}, writes |-> {}]
                  /\ UNCHANGED <<songs, nextId>>
             ELSE IF system = {}
             THEN /\ last' = [op |-> "openkjSync", key |-> key, status |-> NotFoundStatus,
                              caller |-> customerProfileId, reads |-> {}, writes |-> {}]
                  /\ UNCHANGED <<songs, nextId>>
             ELSE LET y == CHOOSE y \in system : TRUE
                      done == SyncLoop([rows |-> songs, nextSong |-> nextId.song,
                                        imported |-> 0, skipped |-> 0, found |-> {}],
                                       customerProfileId, y.openkjSystemId, list, Len(list))
                  IN /\ songs' = done.rows
                     /\ nextId' = [nextId EXCEPT !.song = done.nextSong]
                     /\ last' = [op |-> "openkjSync", key |-> key, status |-> OkStatus,
                                 caller |-> customerProfileId,
                                 system_id |-> y.openkjSystemId,
                                 list |-> list, total_submitted |-> Len(list),
                                 imported |-> done.imported, skipped |-> done.skipped,
                                 reads |-> OwnersOf(system) \cup OwnersOf(done.found),
                                 writes |-> OwnersOf(done.rows \ songs)]
          /\ UNCHANGED <<venues, systems, requests, history, serial, procs, authVars>>

\* GET /v1/openkj/venues/:venueId/requests behind authenticateApiKey, with the query
\* string's processed read as `processed` and a limit that holds every row.
OpenkjGetRequests(key, openkjVenueId, processed) ==
  IF KeyRejected(key)
  THEN /\ last' = KeyRequired("openkjGetRequests", key)
       /\ UNCHANGED <<dbVars, procs, authVars>>
  ELSE LET apiKey == CHOOSE k \in ActiveKeys(key) : TRUE
           customerProfileId == apiKey.customerProfileId
           venue == VenueByLegacyId(openkjVenueId, customerProfileId)
       IN /\ apiKeys' = KeyUsed(apiKey.id)
          /\ last' = IF venue = {}
                     THEN [op |-> "openkjGetRequests", key |-> key,
                           status |-> NotFoundStatus,
                           caller |-> customerProfileId, reads |-> {}, writes |-> {}]
                     ELSE LET v == CHOOSE v \in venue : TRUE
                              found == {r \in requests : /\ r.venueId = v.id
                                                         /\ r.processed = processed}
                          IN [op |-> "openkjGetRequests", key |-> key, status |-> OkStatus,
                              caller |-> customerProfileId, venue_id |-> v.openkjVenueId,
                              total |-> Cardinality(found),
                              requests |-> {r.id : r \in found},
                              reads |-> OwnersOf(venue)
                                          \cup UNION {RequestOwner(r) : r \in found},
                              writes |-> {}]
          /\ UNCHANGED <<venues, systems, songs, requests, history, serial, nextId, procs, authVars>>

\* ------------------------------------------------------------------ inputs
UrlNames == {"u1", "u2", "u3"}

\* Bodies that pass createRequestSchema; the service also takes them without keyChange.
RequestBodies ==
  {[artist |-> <<"A", "b">>, title |-> <<"B", "a">>],
   [artist |-> <<"A", "b">>, title |-> <<"B", "a">>, keyChange |-> 0],
   [artist |-> <<"A", "b">>, title |-> <<"B", "a">>, keyChange |-> 2, notes |-> "n1"]}

\* Bodies of PATCH .../requests/:requestId: { processed?, notes? }.
UpdateRequestBodies ==
  {NoFields, [notes |-> "n2"]}
    \cup {[processed |-> p] : p \in BOOLEAN}
    \cup {[processed |-> p, notes |-> "n2"] : p \in BOOLEAN}

\* Bodies of PUT .../venues/:venueId that matter here: { acceptingRequests? }.
UpdateVenueBodies == {NoFields} \cup {[acceptingRequests |-> a] : a \in BOOLEAN}

\* Filters of the request list as the route builds them, { processed?, limit, offset },
\* for a query without limit and offset.
ListFilters ==
  {[limit |-> DefaultLimit, offset |-> 0]}
    \cup {[processed |-> p, limit |-> DefaultLimit, offset |-> 0] : p \in BOOLEAN}

\* The same for queries with and without limit and offset.
PageFilters ==
  {[limit |-> l, offset |-> o] : l \in {1, DefaultLimit}, o \in {0, 1}}
    \cup {[processed |-> p, limit |-> l, offset |-> o] :
            p \in BOOLEAN, l \in {1, DefaultLimit}, o \in {0, 1}}

\* What a caller may send as X-API-Key: a key text, or nothing.
KeyHeaders == KeyTexts \cup {NULL}

\* Songs that pass bulkImportSongsSchema.  SongADup is SongA in another casing and
\* punctuation; SongB and SongBSplit split the same words differently.
SongA == [artist |-> <<"A", "b">>, title |-> <<"B">>]
SongADup == [artist |-> <<"a", "B">>, title |-> <<"b", "'">>]
SongB == [artist |-> <<"A">>, title |-> <<"b", " ", "B">>]
SongBSplit == [artist |-> <<"a", "\t", "b">>, title |-> <<"B">>]

\* Batches of POST /songdb/import and of the legacy sync.
Batches ==
  {<<SongA>>, <<SongADup>>, <<SongB>>, <<SongA, SongADup>>, <<SongBSplit, SongB>>,
   <<SongADup, SongB, SongA>>}

\* ------------------------------------------------------------------ stores to start from
\* Tenant t1 holds an active key, tenant t2 a revoked one.
SeedKeys ==
  {[id |-> 1, customerProfileId |-> "t1", apiKeyHash |-> Sha256("sk_a"),
    status |-> "active", lastUsedAt |-> NULL, revokedAt |-> NULL],
   [id |-> 2, customerProfileId |-> "t2", apiKeyHash |-> Sha256("sk_b"),
    status |-> "revoked", lastUsedAt |-> NULL, revokedAt |-> NewDate]}

\* One venue per tenant, as two createVenue calls leave them; t2's is closed.
SeedVenues ==
  {[id |-> 1, customerProfileId |-> "t1", openkjVenueId |-> 1, urlName |-> "u1",
    acceptingRequests |-> TRUE],
   [id |-> 2, customerProfileId |-> "t2", openkjVenueId |-> 1, urlName |-> "u2",
    acceptingRequests |-> FALSE]}

\* ------------------------------------------------------------------ createRequest, step by step
\* RequestService.createRequest, each await a step of its own.  First
\* prisma.venue.findUnique and the two checks on its result.
RequestCheck(p, op, data) ==
  /\ procs[p] = Idle
  /\ IF VenueById(data.venueId) = {}
     THEN /\ last' = [op |-> op, status |-> NotFoundStatus, data |-> data, inserted |-> {}]
          /\ UNCHANGED <<dbVars, procs, authVars>>
     ELSE IF VenueClosed(CHOOSE v \in VenueById(data.venueId) : TRUE)
     THEN /\ last' = [op |-> op, status |-> AuthorizationStatus, data |-> data,
                      inserted |-> {}]
          /\ UNCHANGED <<dbVars, procs, authVars>>
     ELSE /\ procs' = [procs EXCEPT ![p] = [pc |-> "requestCreate", op |-> op,
                                            data |-> data]]
          /\ UNCHANGED <<dbVars, last, authVars>>

\* Then prisma.request.create.  The row refers to its venue (the queries filter
\* requests by `venue: { customerProfileId }`), so the insert throws when the venue is
\* gone and the call answers 500.
RequestInsert(p) ==
  /\ procs[p].pc = "requestCreate"
  /\ nextId.request <= MaxRequests
  /\ LET q == procs[p]
         row == NewRequest(nextId.request, q.data)
     IN IF VenueById(q.data.venueId) = {}
        THEN /\ procs' = [procs EXCEPT ![p] = Idle]
             /\ last' = [op |-> q.op, status |-> InternalStatus, data |-> q.data,
                         inserted |-> {}]
             /\ UNCHANGED dbVars
        ELSE /\ requests' = requests \cup {row}
             /\ nextId' = [nextId EXCEPT !.request = @ + 1]
             /\ IF WritesHistory(q.data)
                THEN /\ procs' = [procs EXCEPT ![p] = [q EXCEPT !.pc = "requestHistory"]
                                                        @@ [request |-> row]]
                     /\ UNCHANGED last
                ELSE /\ procs' = [procs EXCEPT ![p] = Idle]
                     /\ last' = [op |-> q.op, status |-> CreatedStatus, data |-> q.data,
                                 request |-> row, inserted |-> {row.id}]
             /\ UNCHANGED <<venues, systems, songs, history, apiKeys, serial>>
  /\ UNCHANGED authVars

\* Then, for a singer, prisma.singerRequestHistory.create; `written` says whether the
\* statement succeeds.  When it throws the call answers 500.
RequestHistory(p, written) ==
  /\ procs[p].pc = "requestHistory"
  /\ LET q == procs[p]
     IN /\ procs' = [procs EXCEPT ![p] = Idle]
        /\ IF written /\ VenueById(q.data.venueId) # {}
           THEN /\ history' = Append(history, NewHistory(q.data))
                /\ last' = [op |-> q.op, status |-> CreatedStatus, data |-> q.data,
                            request |-> q.request, inserted |-> {q.request.id}]
           ELSE /\ UNCHANGED history
                /\ last' = [op |-> q.op, status |-> InternalStatus, data |-> q.data,
                            inserted |-> {q.request.id}]
  /\ UNCHANGED <<venues, systems, songs, requests, apiKeys, serial, nextId, authVars>>

\* ------------------------------------------------------------------ imports, step by step
\* bulkImportSongs (kind "bulkImport") and the sync handler (kind "openkjSync", for the
\* tenant of its verified key), each await a step of its own: the system lookup, then
\* for every song findFirst and, when nothing was found, create.
ImportBegin(p, kind, caller, openkjSystemId, list) ==
  /\ procs[p] = Idle
  /\ IF SystemByLegacyId(openkjSystemId, caller) = {}
     THEN /\ last' = [op |-> kind, caller |-> caller, status |-> NotFoundStatus,
                      openkjSystemId |-> openkjSystemId]
          /\ UNCHANGED <<dbVars, procs, authVars>>
     ELSE /\ procs' = [procs EXCEPT ![p] = [pc |-> "songFind", kind |-> kind,
                                            caller |-> caller,
                                            openkjSystemId |-> openkjSystemId,
                                            rest |-> list, imported |-> 0, skipped |-> 0]]
          /\ UNCHANGED <<dbVars, last, authVars>>

\* The reply of an import whose loop has ended.
ImportReply(q) ==
  [op |-> q.kind, caller |-> q.caller, status |-> OkStatus,
   openkjSystemId |-> q.openkjSystemId, imported |-> q.imported, skipped |-> q.skipped]

\* The process after one more song, and the reply when that was the last one.
ImportAdvance(p, q) ==
  IF q.rest = <<>>
  THEN /\ procs' = [procs EXCEPT ![p] = Idle]
       /\ last' = ImportReply(q)
  ELSE /\ procs' = [procs EXCEPT ![p] = q]
       /\ UNCHANGED last

\* prisma.songDb.findFirst({ where: { customerProfileId, openkjSystemId,
\* normalizedCombined } }) for the next song, and skipped++ on a hit.
ImportFind(p) ==
  /\ procs[p].pc = "songFind"
  /\ LET q == procs[p]
         song == Head(q.rest)
         combined == Combined(song.artist, song.title)
         normalizedCombined == IF q.kind = "openkjSync" THEN SyncNormalized(combined)
                               ELSE normalizeSongName(combined)
     IN IF ExistingSong(songs, q.caller, q.openkjSystemId, normalizedCombined) # {}
        THEN ImportAdvance(p, [q EXCEPT !.rest = Tail(@), !.skipped = @ + 1])
        ELSE /\ procs' = [procs EXCEPT ![p] = [q EXCEPT !.pc = "songCreate"]]
             /\ UNCHANGED last
  /\ UNCHANGED <<dbVars, authVars>>

\* prisma.songDb.create for the song that findFirst did not find, and imported++.
ImportCreate(p) ==
  /\ procs[p].pc = "songCreate"
  /\ nextId.song <= MaxSongId
  /\ LET q == procs[p]
     IN /\ songs' = songs \cup {NewSong(nextId.song, q.caller, q.openkjSystemId, Head(q.rest))}
        /\ nextId' = [nextId EXCEPT !.song = @ + 1]
        /\ ImportAdvance(p, [q EXCEPT !.pc = "songFind", !.rest = Tail(@),
                                      !.imported = @ + 1])
  /\ UNCHANGED <<venues, systems, requests, history, apiKeys, serial, authVars>>

\* ------------------------------------------------------------------ pagination
\* A JavaScript value of a query is a number, NaN or a string (a text); an absent
\* field is undefined.
Num(n) == [type |-> "number", value |-> n]
NaN == [type |-> "NaN"]
Str(text) == [type |-> "string", value |-> text]
Null == [type |-> "null"]
Undefined == [type |-> "undefined"]

Decimal == <<"0", "1", "2", "3", "4", "5", "6", "7", "8", "9">>
DecimalChars == {Decimal[i] : i \in 1..Len(Decimal)}
DigitValue(c) == CHOOSE d \in 0..9 : Decimal[d + 1] = c

\* Number.prototype.toString of a non-negative integer.
RECURSIVE DigitsOf(_)
DigitsOf(n) == IF n < 10 THEN <<Decimal[n + 1]>> ELSE DigitsOf(n \div 10) \o <<Decimal[(n % 10) + 1]>>

\* String(value)
String(v) ==
  CASE v.type = "string" -> v.value
    [] v.type = "NaN" -> <<"N", "a", "N">>
    [] OTHER -> IF v.value < 0 THEN <<"-">> \o DigitsOf(0 - v.value) ELSE DigitsOf(v.value)

\* The digits a text starts with, and their value.
RECURSIVE LeadingDigits(_)
LeadingDigits(text) ==
  IF text # <<>> /\ Head(text) \in DecimalChars
  THEN <<Head(text)>> \o LeadingDigits(Tail(text))
  ELSE <<>>

RECURSIVE ValueOfDigits(_)
ValueOfDigits(digits) ==
  IF digits = <<>> THEN 0
  ELSE ValueOfDigits(SubSeq(digits, 1, Len(digits) - 1)) * 10 + DigitValue(digits[Len(digits)])

RECURSIVE SkipSpace(_)
SkipSpace(text) ==
  IF text # <<>> /\ Head(text) \in SpaceChars THEN SkipSpace(Tail(text)) ELSE text

\* parseInt(text, 10): leading white space, a sign, then digits up to the first
\* character that is none; NaN without a digit.
parseInt(text) ==
  LET t == SkipSpace(text)
      signed == t # <<>> /\ Head(t) \in {"-", "+"}
      digits == LeadingDigits(IF signed THEN Tail(t) ELSE t)
  IN IF digits = <<>> THEN NaN
     ELSE IF signed /\ Head(t) = "-" THEN Num(0 - ValueOfDigits(digits))
     ELSE Num(ValueOfDigits(digits))

\* Math.max(a, b) and Math.min(a, b); NaN when one argument is NaN.
MathMax(a, b) ==
  IF a.type = "NaN" \/ b.type = "NaN" THEN NaN
  ELSE IF a.value >= b.value THEN a ELSE b

\* Math.min mutated: the first argument whatever the second.
MathMinFirst(a, b) ==
  a

MathMin(a, b) ==
  IF a.type = "NaN" \/ b.type = "NaN" THEN NaN
  ELSE IF a.value <= b.value THEN a ELSE b

\* query.field || fallback: the fallback for undefined, 0, NaN and ''.
OrElse(query, field, fallback) ==
  IF field \notin DOMAIN query THEN fallback
  ELSE LET v == query[field]
       IN CASE v.type = "number" -> IF v.value = 0 THEN fallback ELSE v
            [] v.type = "string" -> IF v.value = <<>> THEN fallback ELSE v
            [] OTHER -> fallback

parsePaginationParams(query) ==
  [limit |-> MathMin(MathMax(Num(1), parseInt(String(OrElse(query, "limit", Num(DefaultLimit))))),
                     Num(MaxLimit)),
   offset |-> MathMax(Num(0), parseInt(String(OrElse(query, "offset", Num(0)))))]
    @@ (IF "cursor" \in DOMAIN query /\ query.cursor.value # <<>>
        THEN [cursor |-> String(query.cursor)]
        ELSE NoFields)

\* createPaginationInfo; total is a number or undefined, nextCursor a text or null.
createPaginationInfo(total, limit, offset, dataLength) ==
  [total |-> total, limit |-> limit, offset |-> offset,
   hasMore |-> (dataLength = limit),
   nextCursor |-> IF dataLength = limit THEN Str(String(Num(offset + limit))) ELSE Null]

\* A call of parsePaginationParams and one of createPaginationInfo.
ParsePagination(query) ==
  /\ last' = [op |-> "parsePaginationParams", status |-> OkStatus, query |-> query,
              params |-> parsePaginationParams(query)]
  /\ UNCHANGED <<dbVars, procs, authVars>>

CreatePagination(total, limit, offset, dataLength) ==
  /\ last' = [op |-> "createPaginationInfo", status |-> OkStatus, dataLength |-> dataLength,
              info |-> createPaginationInfo(total, limit, offset, dataLength)]
  /\ UNCHANGED <<dbVars, procs, authVars>>

\* ------------------------------------------------------------------ search
\* { contains: part, mode: 'insensitive' }: the text holds the part, case aside.
ContainsInsensitive(text, part) ==
  LET t == toLowerCase(text)
      q == toLowerCase(part)
  IN \E i \in 0..(Len(t) - Len(q)) : SubSeq(t, i + 1, i + Len(q)) = q

\* where.OR of searchSongs.
SearchMatches(row, search) ==
  \/ ContainsInsensitive(row.artist, search)
  \/ ContainsInsensitive(row.title, search)
  \/ ContainsInsensitive(row.combined, search)
  \/ ContainsInsensitive(row.normalizedCombined, normalizeSongName(search))

\* filters.search && filters.search.length >= 2
SearchApplies(filters) ==
  "search" \in DOMAIN filters /\ Len(filters.search) >= 2

\* The `where` of searchSongs: { customerProfileId }, openkjSystemId of the system found
\* when filters.systemId is given, and the OR when the search applies.
SearchWhere(customerProfileId, filters) ==
  {r \in songs :
     /\ r.customerProfileId = customerProfileId
     /\ ("systemId" \in DOMAIN filters)
          => \E y \in SystemOwnedBy(filters.systemId, customerProfileId) :
               r.openkjSystemId = y.openkjSystemId
     /\ SearchApplies(filters) => SearchMatches(r, filters.search)}

\* select: { id, artist, title, combined, openkjSystemId, createdAt }
SongSelected(r) ==
  [id |-> r.id, artist |-> r.artist, title |-> r.title, combined |-> r.combined,
   openkjSystemId |-> r.openkjSystemId]

\* SongDbService.searchSongs behind GET /v1/customer/songdb.  The page is `limit` rows
\* after `offset` in the order of artist and title under the collation of the
\* database: any set of rows of the size that take and skip leave.
SearchSongs(caller, filters, limit, offset) ==
  IF "systemId" \in DOMAIN filters /\ SystemOwnedBy(filters.systemId, caller) = {}
  THEN /\ last' = [op |-> "searchSongs", caller |-> caller, status |-> NotFoundStatus,
                   filters |-> filters]
       /\ UNCHANGED <<dbVars, procs, authVars>>
  ELSE LET rows == SearchWhere(caller, filters)
           total == Cardinality(rows)
           left == IF total > offset THEN total - offset ELSE 0
           size == IF left > limit THEN limit ELSE left
       IN /\ \E page \in SUBSET rows :
               /\ Cardinality(page) = size
               /\ last' = [op |-> "searchSongs", caller |-> caller, status |-> OkStatus,
                           filters |-> filters, searched |-> SearchApplies(filters),
                           songs |-> {SongSelected(r) : r \in page}, total |-> total]
          /\ UNCHANGED <<dbVars, procs, authVars>>

\* ------------------------------------------------------------------ tokens
\* An expiry setting is written <<number, unit>>, the two groups parseExpiry's
\* regular expression takes from the string ("15m" is <<15, "m">>).
UnitSeconds(unit) ==
  CASE unit = "s" -> 1
    [] unit = "m" -> 60
    [] unit = "h" -> 3600
    [] unit = "d" -> 86400

parseExpiry(expiry) == expiry[1] * UnitSeconds(expiry[2])

\* JWT_ACCESS_EXPIRY and JWT_REFRESH_EXPIRY as the development defaults set them.
DefaultConfig == [JWT_ACCESS_EXPIRY |-> <<15, "m">>, JWT_REFRESH_EXPIRY |-> <<7, "d">>]

\* Settings an environment may hold: the defaults, shorter and longer lifetimes.
Configs ==
  {DefaultConfig,
   [JWT_ACCESS_EXPIRY |-> <<5, "m">>, JWT_REFRESH_EXPIRY |-> <<1, "d">>],
   [JWT_ACCESS_EXPIRY |-> <<30, "m">>, JWT_REFRESH_EXPIRY |-> <<30, "d">>]}

\* The expirySeconds that /logout and /refresh pass to revokeToken.
LogoutRevokeSeconds == 15 * 60
RefreshRevokeSeconds == 7 * 24 * 60 * 60

\* No token issued, nothing revoked.
NoSessions ==
  /\ config = DefaultConfig
  /\ now = 0
  /\ tokens = {}
  /\ denylist = {}
  /\ userRevoked = {}

\* A string that is no token signed with the server's key.
NoToken == 0

\* jwt.sign of generateAccessToken / generateRefreshToken: a fresh jti, exp a lifetime
\* from now.  rotated and loggedOut are marks of the client's history with the token
\* (a /refresh answered 200 for it, a /logout answered 204 for it, a /reset-password of
\* its user answered 200 after it was issued), not claims of it.
SignedToken(jti, kind, sub, lifetime) ==
  [jti |-> jti, kind |-> kind, sub |-> sub, exp |-> now + parseExpiry(lifetime),
   rotated |-> FALSE, loggedOut |-> FALSE, reset |-> FALSE]

generateTokenPair(sub) ==
  LET jti == Cardinality(tokens) + 1
  IN [accessToken |-> SignedToken(jti, "access", sub, config.JWT_ACCESS_EXPIRY),
      refreshToken |-> SignedToken(jti + 1, "refresh", sub, config.JWT_REFRESH_EXPIRY)]

PairLeft(max) == Cardinality(tokens) + 2 <= max

\* verifyToken and request.jwtVerify: the payload of a token signed with the key and
\* not expired; whether it was issued as access or refresh token is not looked at.
verifyToken(token) == {t \in tokens : t.jti = token /\ now < t.exp}

\* RefreshTokenService.isJTIRevoked: redis.get of revoked:<jti>, which holds '1' until
\* the key expires; false when the command fails.
isJTIRevoked(jti, redisUp) ==
  redisUp /\ \E e \in denylist : e.jti = jti /\ now < e.expiresAt

\* RefreshTokenService.revokeToken when redis.setex succeeds.
revokeToken(jti, expirySeconds) ==
  {e \in denylist : e.jti # jti} \cup {[jti |-> jti, expiresAt |-> now + expirySeconds]}

\* The `authenticate` decorator: 401 when jwtVerify throws or the jti is revoked.
authenticate(token, redisUp) ==
  IF verifyToken(token) = {} THEN AuthenticationStatus
  ELSE IF isJTIRevoked(token, redisUp) THEN AuthenticationStatus
  ELSE OkStatus

\* POST /v1/auth/signin.
SignIn(sub, passwordOk) ==
  IF ~passwordOk
  THEN /\ last' = [op |-> "signin", status |-> AuthenticationStatus]
       /\ UNCHANGED <<dbVars, procs, authVars>>
  ELSE /\ PairLeft(MaxSignedIn)
       /\ LET pair == generateTokenPair(sub)
          IN /\ tokens' = tokens \cup {pair.accessToken, pair.refreshToken}
             /\ last' = [op |-> "signin", status |-> OkStatus,
                         accessToken |-> pair.accessToken.jti,
                         refreshToken |-> pair.refreshToken.jti]
       /\ UNCHANGED <<dbVars, procs, config, now, denylist, userRevoked>>

\* POST /v1/auth/refresh; getUp and setexUp say whether the Redis commands of
\* isJTIRevoked and revokeToken succeed.  Every throw inside the try ends as 401.
Refresh(token, getUp, setexUp) ==
  LET decoded == verifyToken(token)
  IN IF decoded = {} \/ isJTIRevoked(token, getUp) \/ ~setexUp
     THEN /\ last' = [op |-> "refresh", status |-> AuthenticationStatus, token |-> token,
                      redis |-> <<getUp, setexUp>>]
          /\ UNCHANGED <<dbVars, procs, authVars>>
     ELSE /\ PairLeft(MaxTokens)
          /\ LET pair == generateTokenPair((CHOOSE t \in decoded : TRUE).sub)
             IN /\ tokens' = {IF t.jti = token THEN [t EXCEPT !.rotated = TRUE] ELSE t :
                                t \in tokens}
                              \cup {pair.accessToken, pair.refreshToken}
                /\ last' = [op |-> "refresh", status |-> OkStatus, token |-> token,
                            redis |-> <<getUp, setexUp>>,
                            accessToken |-> pair.accessToken.jti,
                            refreshToken |-> pair.refreshToken.jti]
          /\ denylist' = revokeToken(token, RefreshRevokeSeconds)
          /\ UNCHANGED <<dbVars, procs, config, now, userRevoked>>

\* POST /v1/auth/refresh, each await a step of its own.  First verifyToken and
\* isJTIRevoked.
RefreshCheck(p, token, getUp) ==
  /\ procs[p] = Idle
  /\ IF verifyToken(token) = {} \/ isJTIRevoked(token, getUp)
     THEN /\ last' = [op |-> "refresh", status |-> AuthenticationStatus, token |-> token,
                      redis |-> <<getUp>>]
          /\ UNCHANGED <<dbVars, procs, authVars>>
     ELSE /\ procs' = [procs EXCEPT ![p] = [pc |-> "refreshRevoke", token |-> token,
                                            decoded |-> CHOOSE t \in verifyToken(token) : TRUE]]
          /\ UNCHANGED <<dbVars, last, authVars>>

\* Then generateTokenPair, revokeToken and the reply; a failed setex ends as 401.
RefreshRevoke(p, setexUp) ==
  /\ procs[p].pc = "refreshRevoke"
  /\ procs' = [procs EXCEPT ![p] = Idle]
  /\ IF ~setexUp
     THEN /\ last' = [op |-> "refresh", status |-> AuthenticationStatus,
                      token |-> procs[p].token, redis |-> <<TRUE, setexUp>>]
          /\ UNCHANGED <<dbVars, authVars>>
     ELSE /\ PairLeft(MaxTokens)
          /\ LET pair == generateTokenPair(procs[p].decoded.sub)
             IN /\ tokens' = {IF t.jti = procs[p].token THEN [t EXCEPT !.rotated = TRUE]
                                ELSE t : t \in tokens}
                              \cup {pair.accessToken, pair.refreshToken}
                /\ last' = [op |-> "refresh", status |-> OkStatus, token |-> procs[p].token,
                            redis |-> <<TRUE, setexUp>>,
                            accessToken |-> pair.accessToken.jti,
                            refreshToken |-> pair.refreshToken.jti]
          /\ denylist' = revokeToken(procs[p].token, RefreshRevokeSeconds)
          /\ UNCHANGED <<dbVars, config, now, userRevoked>>

\* POST /v1/auth/logout behind `authenticate`; a failed setex throws a plain Error,
\* which the error handler answers with 500.
Logout(token, getUp, setexUp) ==
  IF authenticate(token, getUp) # OkStatus
  THEN /\ last' = [op |-> "logout", status |-> AuthenticationStatus, token |-> token,
                   redis |-> <<getUp, setexUp>>]
       /\ UNCHANGED <<dbVars, procs, authVars>>
  ELSE IF ~setexUp
  THEN /\ last' = [op |-> "logout", status |-> InternalStatus, token |-> token,
                   redis |-> <<getUp, setexUp>>]
       /\ UNCHANGED <<dbVars, procs, authVars>>
  ELSE /\ denylist' = revokeToken(token, LogoutRevokeSeconds)
       /\ tokens' = {IF t.jti = token THEN [t EXCEPT !.loggedOut = TRUE] ELSE t : t \in tokens}
       /\ last' = [op |-> "logout", status |-> NoContentStatus, token |-> token,
                   redis |-> <<getUp, setexUp>>]
       /\ UNCHANGED <<dbVars, procs, config, now, userRevoked>>

\* RefreshTokenService.revokeAllUserTokens when redis.set succeeds: the key
\* user:revoked:<userId> holds the time of the call.
revokeAllUserTokens(userId) ==
  {e \in userRevoked : e.userId # userId} \cup {[userId |-> userId, revokedAt |-> now]}

\* POST /v1/auth/reset-password with a strong password.  tokenOk says whether the
\* verification token is on file and not expired, setUp whether redis.set succeeds;
\* the new password hash and the deleted verification token are rows this model does
\* not hold.  A failed redis.set throws after both, and the handler answers 500.
ResetPassword(userId, tokenOk, setUp) ==
  IF ~tokenOk
  THEN /\ last' = [op |-> "resetPassword", status |-> ValidationStatus, userId |-> userId]
       /\ UNCHANGED <<dbVars, procs, authVars>>
  ELSE IF ~setUp
  THEN /\ last' = [op |-> "resetPassword", status |-> InternalStatus, userId |-> userId]
       /\ UNCHANGED <<dbVars, procs, authVars>>
  ELSE /\ userRevoked' = revokeAllUserTokens(userId)
       /\ tokens' = {IF t.sub = userId THEN [t EXCEPT !.reset = TRUE] ELSE t : t \in tokens}
       /\ last' = [op |-> "resetPassword", status |-> OkStatus, userId |-> userId]
       /\ UNCHANGED <<dbVars, procs, config, now, denylist>>

\* A request to a route with preHandler server.authenticate, up to the handler.
AuthenticatedRequest(token, getUp) ==
  /\ last' = [op |-> "authenticate", status |-> authenticate(token, getUp),
              token |-> token, redis |-> <<getUp>>]
  /\ UNCHANGED <<dbVars, procs, authVars>>

\* The instants at which a token or a revoked key expires.
Expiries == {t.exp : t \in tokens} \cup {e.expiresAt : e \in denylist}

\* Time passes up to the next expiry.
Expire ==
  /\ \E at \in Expiries : /\ at > now
                          /\ \A other \in Expiries : other > now => at <= other
                          /\ now' = at
  /\ last' = [op |-> "expire", status |-> OkStatus]
  /\ UNCHANGED <<dbVars, procs, config, tokens, denylist, userRevoked>>

\* Time passes by `seconds`, within the first ClockFine seconds.
Pass(seconds) ==
  /\ now + seconds <= ClockFine
  /\ now' = now + seconds
  /\ last' = [op |-> "pass", status |-> OkStatus]
  /\ UNCHANGED <<dbVars, procs, config, tokens, denylist, userRevoked>>

\* The store after signup of both tenants, creation of `vs` and issue of `keys`.
InitStore(vs, keys) ==
  /\ venues = vs
  /\ systems = {}
  /\ songs = {}
  /\ requests = {}
  /\ history = <<>>
  /\ apiKeys = keys
  /\ serial = [t \in Tenants |-> Cardinality({v \in vs : v.customerProfileId = t})]
  /\ nextId = [venue |-> Cardinality(vs) + 1, system |-> 1, song |-> 1, request |-> 1,
               key |-> Cardinality(keys) + 1]
  /\ procs = <<>>
  /\ NoSessions
  /\ last = [op |-> "none", status |-> OkStatus]

\* ------------------------------------------------------------------ request lifecycle
\* Both venues open, so that requests of both tenants exist.
InitRequests ==
  InitStore({[v EXCEPT !.acceptingRequests = TRUE] : v \in SeedVenues}, SeedKeys)

NextRequests ==
  \/ \E u \in UrlNames : SubmitGuestRequest(u, [artist |-> <<"A", "b">>, title |-> <<"B", "a">>])
  \/ \E t \in Tenants, v \in 1..2, r \in 1..MaxRequests, d \in UpdateRequestBodies :
       UpdateRequest(t, v, r, d)
  \/ \E t \in Tenants, v \in 1..2, r \in 1..MaxRequests : DeleteRequest(t, v, r)
  \/ \E k \in KeyHeaders, v \in 1..2, r \in 1..MaxRequests : OpenkjProcessRequest(k, v, r)

SpecRequests == InitRequests /\ [][NextRequests]_vars

\* C1 (as claimed): every stored Request has processedAt set exactly when processed.
C1_ProcessedAtMatches ==
  \A r \in requests : r.processed <=> r.processedAt # NULL

\* ------------------------------------------------------------------ submission
InitSubmit == InitStore(SeedVenues, SeedKeys)

NextSubmit ==
  \/ \E t \in Tenants, v \in 1..2, d \in UpdateVenueBodies : UpdateVenue(t, v, d)
  \/ \E u \in UrlNames, b \in RequestBodies : SubmitGuestRequest(u, b)
  \/ \E s \in Singers, u \in UrlNames, b \in RequestBodies : SubmitSingerRequest(s, u, b)

SpecSubmit == InitSubmit /\ [][NextSubmit]_vars

SubmitOps == {"guestRequest", "singerRequest"}

\* C3: a createRequest that finds its venue with acceptingRequests = false answers
\* 403 (not 404) and inserts neither a Request nor a History Entry, guest or singer.
C3_ClosedVenueRejects ==
  [][(/\ last'.op \in SubmitOps
      /\ "data" \in DOMAIN last'
      /\ \E v \in venues : v.id = last'.data.venueId /\ ~v.acceptingRequests)
     => (/\ last'.status = AuthorizationStatus
         /\ requests' = requests
         /\ history' = history)]_vars

\* C3 witness: an authenticated singer was turned away by a closed venue.
C3_Witness ==
  /\ last.op = "singerRequest"
  /\ last.status = AuthorizationStatus
  /\ \E v \in venues : v.id = last.data.venueId /\ ~v.acceptingRequests

\* Two texts of the same length that differ at most in the case of their letters.
SameIgnoringCase(x, y) ==
  /\ Len(x) = Len(y)
  /\ \A i \in 1..Len(x) : x[i] = y[i] \/ <<x[i], y[i]>> \in {<<"A", "a">>, <<"a", "A">>, <<"B", "b">>, <<"b", "B">>}

\* C9: a successful createRequest stores a pending Request; with a singerProfileId it
\* appends exactly one History Entry of that singer with the request's venue, artist,
\* title and keyChange and the lowercased artist:title; without, history is untouched.
C9_HistoryOnlyForSingers ==
  [][(last'.op \in SubmitOps /\ last'.status = CreatedStatus /\ last' # last)
     => LET d == last'.data
            r == last'.request
        IN /\ requests' = requests \cup {r} /\ r \notin requests
           /\ r.processed = FALSE /\ r.processedAt = NULL
           /\ IF d.singerProfileId = NULL
              THEN history' = history
              ELSE /\ Len(history') = Len(history) + 1
                   /\ SubSeq(history', 1, Len(history)) = history
                   /\ LET h == history'[Len(history')]
                      IN /\ h.singerProfileId = d.singerProfileId
                         /\ h.venueId = r.venueId /\ h.venueId = d.venueId
                         /\ h.artist = r.artist /\ h.artist = d.artist
                         /\ h.title = r.title /\ h.title = d.title
                         /\ h.keyChange = r.keyChange
                         /\ SameIgnoringCase(h.songFingerprint, d.artist \o <<":">> \o d.title)
                         /\ \A i \in 1..Len(h.songFingerprint) :
                              h.songFingerprint[i] \notin UpperChars]_vars

\* C9 witness: a singer's request with a key change is stored, with its history entry,
\* next to a guest request that left none.
C9_Witness ==
  /\ last.op = "singerRequest" /\ last.status = CreatedStatus
  /\ last.request.keyChange = 2
  /\ Len(history) = 1
  /\ \E g \in requests : g.singerProfileId = NULL

\* ------------------------------------------------------------------ ownership
\* Each tenant owns a venue; t1 also owns a system (its second legacy id) with one
\* catalog entry, and its venue holds one pending guest request.
InitOwnership ==
  /\ venues = {[v EXCEPT !.acceptingRequests = TRUE] : v \in SeedVenues}
  /\ systems = {[id |-> 1, customerProfileId |-> "t1", openkjSystemId |-> 2, name |-> "sysA"]}
  /\ songs = {NewSong(1, "t1", 2, SongA)}
  /\ requests = {NewRequest(1, [venueId |-> 1, singerProfileId |-> NULL,
                                submittedByUserId |-> NULL, artist |-> <<"A", "b">>,
                                title |-> <<"B", "a">>])}
  /\ history = <<>>
  /\ apiKeys = SeedKeys
  /\ serial = [t \in Tenants |-> IF t = "t1" THEN 2 ELSE 1]
  /\ nextId = [venue |-> 3, system |-> 2, song |-> 2, request |-> 2, key |-> 3]
  /\ procs = <<>>
  /\ NoSessions
  /\ last = [op |-> "none", status |-> OkStatus]

NextOwnership ==
  \/ \E t \in Tenants, v \in 1..2 : GetVenue(t, v)
  \/ \E t \in Tenants, v \in 1..2 : UpdateVenue(t, v, [acceptingRequests |-> FALSE])
  \/ \E t \in Tenants, v \in 1..2 : DeleteVenue(t, v)
  \/ \E t \in Tenants, v \in 1..2, f \in ListFilters : ListVenueRequests(t, v, f)
  \/ \E t \in Tenants, v \in 1..2 : CustomerVenueRequests(t, v)
  \/ \E t \in Tenants, v \in 1..2, r \in 1..2 : UpdateRequest(t, v, r, [processed |-> TRUE])
  \/ \E t \in Tenants, v \in 1..2, r \in 1..2 : DeleteRequest(t, v, r)
  \/ \E t \in Tenants, y \in 1..2 : GetSystem(t, y)
  \/ \E t \in Tenants, y \in 1..2 : UpdateSystem(t, y, [name |-> "sysB"])
  \/ \E t \in Tenants, y \in 1..2 : DeleteSystem(t, y)
  \/ \E t \in Tenants, g \in 1..2 : GetSong(t, g)
  \/ \E t \in Tenants, g \in 1..2 : DeleteSong(t, g)
  \/ \E t \in Tenants, y \in 1..2 : DeleteBulkSongs(t, y)
  \/ \E t \in Tenants, y \in 1..2 : ExportSongs(t, y)

SpecOwnership == InitOwnership /\ [][NextOwnership]_vars

\* The get, update, delete and list operations that name a tenant-owned resource.
ServiceScopedOps ==
  {"getVenue", "updateVenue", "deleteVenue", "listVenueRequests", "updateRequest",
   "deleteRequest", "getSystem", "updateSystem", "deleteSystem", "getSong", "deleteSong",
   "deleteBulkSongs", "exportSongs"}

\* The call recorded in `l` names a stored resource that another tenant owns.
ForeignTarget(l) ==
  \/ "venueId" \in DOMAIN l /\ \E v \in venues : v.id = l.venueId /\ v.customerProfileId # l.caller
  \/ "requestId" \in DOMAIN l /\ \E r \in requests : r.id = l.requestId /\ RequestOwner(r) # {l.caller}
  \/ "systemId" \in DOMAIN l /\ \E y \in systems : y.id = l.systemId /\ y.customerProfileId # l.caller
  \/ "songId" \in DOMAIN l /\ \E g \in songs : g.id = l.songId /\ g.customerProfileId # l.caller

\* C2 (as claimed): a get, update, delete or request listing that names a resource of
\* another tenant answers 404, never success and never 403, and changes nothing.
C2_CrossTenantNotFound ==
  [][(last'.op \in ServiceScopedOps \cup {"customerVenueRequests"} /\ ForeignTarget(last'))
     => (last'.status = NotFoundStatus /\ UNCHANGED dbVars)]_vars

\* C2 without the request list of routes/customer.ts: the services answer 404.
C2_ServicesNotFound ==
  [][(last'.op \in ServiceScopedOps /\ ForeignTarget(last'))
     => (last'.status = NotFoundStatus /\ UNCHANGED dbVars)]_vars

\* ------------------------------------------------------------------ catalog
\* Each tenant owns one system, both with legacy id 1 (each tenant's first serial).
InitCatalog ==
  /\ venues = {}
  /\ systems = {[id |-> 1, customerProfileId |-> "t1", openkjSystemId |-> 1, name |-> "sysA"],
                [id |-> 2, customerProfileId |-> "t2", openkjSystemId |-> 1, name |-> "sysA"]}
  /\ songs = {}
  /\ requests = {}
  /\ history = <<>>
  /\ apiKeys = SeedKeys
  /\ serial = [t \in Tenants |-> 1]
  /\ nextId = [venue |-> 1, system |-> 3, song |-> 1, request |-> 1, key |-> 3]
  /\ procs = <<>>
  /\ NoSessions
  /\ last = [op |-> "none", status |-> OkStatus]

NextCatalog ==
  \/ \E t \in Tenants, y \in 1..2, b \in Batches :
       nextId.song <= MaxSongId /\ BulkImportSongs(t, y, b, {})
  \/ \E t \in Tenants, b \in Batches, n \in 1..2 :
       nextId.song <= MaxSongId /\ BulkImportInterrupted(t, 1, b, n)
  \/ \E t \in Tenants, y \in 1..2 : DeleteSystem(t, y)
  \/ \E t \in Tenants, y \in 1..2 : DeleteBulkSongs(t, y)

SpecCatalog == InitCatalog /\ [][NextCatalog]_vars

\* The normalized 'artist - title' form of an input song.
NormOf(song) == normalizeSongName(Combined(song.artist, song.title))

\* The stored entries of (tenant, system) that carry the normalized form `norm`.
EntriesWith(rows, tenant, sys, norm) ==
  {g \in rows : /\ g.customerProfileId = tenant
                /\ g.openkjSystemId = sys
                /\ g.normalizedCombined = norm}

\* C4: when a bulk import answers, a song of its list whose normalized form is that
\* of an earlier song of the list, or of an entry the (tenant, system) held before
\* the call, is counted as skipped, and the (tenant, system) ends with exactly one
\* entry of the normalized form of each song of the list.
C4_EqualNormalizedStoredOnce ==
  [][(last'.op = "bulkImport" /\ last'.status = OkStatus)
       => \A j \in 1..Len(last'.list) :
            LET norm == NormOf(last'.list[j])
                held == EntriesWith(songs, last'.caller, last'.openkjSystemId, norm)
                kept == EntriesWith(songs', last'.caller, last'.openkjSystemId, norm)
            IN /\ Cardinality(kept) = 1
               /\ ((held # {} \/ \E i \in 1..(j - 1) : NormOf(last'.list[i]) = norm)
                     => /\ last'.outcome[j] = "skipped"
                        /\ held # {} => kept = held)]_vars

\* C4 happens: an import of two songs of one normalized form stored the first and
\* skipped the second, and a later import of another spelling was skipped whole.
C4_Witness ==
  /\ last.op = "bulkImport"
  /\ last.status = OkStatus
  /\ Len(last.list) >= 2
  /\ \E i, j \in 1..Len(last.list) :
       /\ i < j
       /\ last.list[i] # last.list[j]
       /\ NormOf(last.list[i]) = NormOf(last.list[j])
       /\ last.outcome[i] = "imported"
       /\ last.outcome[j] = "skipped"

\* C4, successive calls: an import whose only song has a spelling that differs from
\* the stored entry of the same normalized form was skipped.
C4_WitnessSuccessive ==
  /\ last.op = "bulkImport"
  /\ last.status = OkStatus
  /\ last.outcome = <<"skipped">>
  /\ \E g \in songs :
       /\ g.customerProfileId = last.caller
       /\ g.openkjSystemId = last.openkjSystemId
       /\ g.normalizedCombined = NormOf(last.list[1])
       /\ g.artist # last.list[1].artist

\* The entries of a system as deleteSystem's claim counts them.
EntriesUnder(rows, system) ==
  {g \in rows : /\ g.customerProfileId = system.customerProfileId
                /\ g.openkjSystemId = system.openkjSystemId}

\* C8: deleteSystem by the owner of a system that has at least one entry under its
\* legacy id answers 409 and leaves systems and entries as they were; it answers 204
\* and removes the system only when the system had no entry.
C8_DeleteSystemNeedsEmptyCatalog ==
  [][(last'.op = "deleteSystem")
       => \A y \in systems :
            (y.id = last'.systemId /\ y.customerProfileId = last'.caller)
              => IF EntriesUnder(songs, y) # {}
                 THEN /\ last'.status = ConflictStatus
                      /\ systems' = systems
                      /\ songs' = songs
                 ELSE /\ last'.status = NoContentStatus
                      /\ systems' = systems \ {y}
                      /\ songs' = songs]_vars

\* C8 happens: a deleteSystem was refused with 409 while the system holds entries.
C8_Witness ==
  /\ last.op = "deleteSystem"
  /\ last.status = ConflictStatus
  /\ \E y \in systems :
       /\ y.id = last.systemId
       /\ EntriesUnder(songs, y) # {}

\* What the catalog holds, row ids aside.
Catalog(rows) ==
  {<<g.customerProfileId, g.openkjSystemId, g.artist, g.title, g.combined,
     g.normalizedCombined>> : g \in rows}

\* C10: a bulk import that repeats the list of the complete run just before it
\* reports imported = 0, skips every song and changes no entry; one that repeats the
\* list of a run cut short ends in the catalog one uninterrupted run from the cut
\* run's starting rows would have left.
C10_ReplayIdempotent ==
  [][(last'.op = "bulkImport" /\ last'.status = OkStatus)
       => /\ (last'.replay = "bulkImport" /\ last.status = OkStatus)
               => /\ last'.imported = 0
                  /\ last'.skipped = Len(last'.list)
                  /\ last'.errors = 0
                  /\ songs' = songs
          /\ (last'.replay = "bulkImportInterrupted")
               => Catalog(songs') =
                    Catalog(ImportLoop(last.before, last'.caller, last'.openkjSystemId,
                                       last'.list, Len(last'.list), {}).rows)]_vars

\* C10 happens: a list of distinct normalized forms was replayed after a complete run.
C10_Witness ==
  /\ last.op = "bulkImport"
  /\ last.status = OkStatus
  /\ last.replay = "bulkImport"
  /\ last.imported = 0
  /\ Len(last.list) >= 2

\* C10, interrupted: a run cut short was replayed in full, and the replay stored
\* what the cut run had not reached.
C10_WitnessInterrupted ==
  /\ last.op = "bulkImport"
  /\ last.status = OkStatus
  /\ last.replay = "bulkImportInterrupted"
  /\ last.imported >= 1
  /\ last.skipped >= 1


\* ------------------------------------------------------------------ API key lifecycle
\* Keys in each status the store admits; only 'active' and 'revoked' are written by
\* the service, the other two by the operator of the store.
InitApiKeys ==
  InitStore(SeedVenues,
            {[id |-> 1, customerProfileId |-> "t1", apiKeyHash |-> Sha256("sk_a"),
              status |-> "active", lastUsedAt |-> NULL, revokedAt |-> NULL],
             [id |-> 2, customerProfileId |-> "t2", apiKeyHash |-> Sha256("sk_b"),
              status |-> "suspended", lastUsedAt |-> NULL, revokedAt |-> NULL],
             [id |-> 3, customerProfileId |-> "t2", apiKeyHash |-> Sha256("sk_c"),
              status |-> "expired", lastUsedAt |-> NewDate, revokedAt |-> NULL]})

NextApiKeys ==
  \/ \E t \in Tenants, key \in KeyTexts : CreateApiKey(t, key)
  \/ \E t \in Tenants, k \in 1..4 : GetApiKey(t, k)
  \/ \E t \in Tenants, k \in 1..4 : RevokeApiKey(t, k)
  \/ \E key \in KeyTexts : VerifyApiKey(key)
  \/ \E t \in Tenants, f \in {NoFields, [status |-> "active"], [status |-> "revoked"]} :
       ListApiKeys(t, f)

SpecApiKeys == InitApiKeys /\ [][NextApiKeys]_vars

\* C5: no step takes a stored key from revoked, expired or suspended to active, every
\* stored key stays stored under its hash, and a verifyApiKey of a text whose stored
\* key is revoked (or otherwise not active) answers valid = false.
C5_RevokedStaysInvalid ==
  [][/\ \A k \in apiKeys, k2 \in apiKeys' :
          (k2.id = k.id /\ k.status # "active") => k2.status # "active"
     /\ \A k \in apiKeys : \E k2 \in apiKeys' : k2.id = k.id /\ k2.apiKeyHash = k.apiKeyHash
     /\ (last'.op = "verifyApiKey"
           /\ \E k \in apiKeys : k.apiKeyHash = <<"sha256", last'.key>> /\ k.status # "active")
          => ~last'.valid]_vars

\* C5 happens: a key that had verified as valid was revoked, and a verifyApiKey of
\* its text then answered valid = false.
C5_Witness ==
  /\ last.op = "verifyApiKey"
  /\ ~last.valid
  /\ \E k \in apiKeys :
       /\ k.apiKeyHash = <<"sha256", last.key>>
       /\ k.status = "revoked"
       /\ k.revokedAt # NULL
       /\ k.lastUsedAt # NULL

\* ------------------------------------------------------------------ legacy sync lifecycle
\* Each tenant with an open venue (legacy id 1), a system (legacy id 2), one catalog
\* entry and one pending request; t1 holds an active and a suspended key, t2 an
\* active one, and sk_d is a text no stored key has.
InitOpenkj ==
  /\ venues = {[v EXCEPT !.acceptingRequests = TRUE] : v \in SeedVenues}
  /\ systems = {[id |-> 1, customerProfileId |-> "t1", openkjSystemId |-> 2, name |-> "sysA"],
                [id |-> 2, customerProfileId |-> "t2", openkjSystemId |-> 2, name |-> "sysA"]}
  /\ songs = {NewSong(1, "t1", 2, SongA), NewSong(2, "t2", 2, SongB)}
  /\ requests = {NewRequest(v, [venueId |-> v, singerProfileId |-> NULL,
                                 submittedByUserId |-> NULL, artist |-> <<"A", "b">>,
                                 title |-> <<"B", "a">>]) : v \in 1..2}
  /\ history = <<>>
  /\ apiKeys = {[id |-> 1, customerProfileId |-> "t1", apiKeyHash |-> Sha256("sk_a"),
                 status |-> "active", lastUsedAt |-> NULL, revokedAt |-> NULL],
                [id |-> 2, customerProfileId |-> "t2", apiKeyHash |-> Sha256("sk_b"),
                 status |-> "active", lastUsedAt |-> NULL, revokedAt |-> NULL],
                [id |-> 3, customerProfileId |-> "t1", apiKeyHash |-> Sha256("sk_c"),
                 status |-> "suspended", lastUsedAt |-> NULL, revokedAt |-> NULL]}
  /\ serial = [t \in Tenants |-> 2]
  /\ nextId = [venue |-> 3, system |-> 3, song |-> 3, request |-> 3, key |-> 4]
  /\ procs = <<>>
  /\ NoSessions
  /\ last = [op |-> "none", status |-> OkStatus]

\* Bodies of the legacy sync: { songs }.
SyncBatches == {<<>>, <<SongADup>>, <<SongB, SongBSplit>>}

NextOpenkj ==
  \/ \E k \in KeyHeaders, v \in 1..2 : OpenkjGetVenue(k, v)
  \/ \E k \in KeyHeaders, y \in 1..2 : OpenkjGetSongs(k, y)
  \/ \E k \in KeyHeaders, y \in 1..2, b \in SyncBatches :
       nextId.song <= MaxSongId /\ OpenkjSyncSongs(k, y, b)
  \/ \E k \in KeyHeaders, v \in 1..2, p \in BOOLEAN : OpenkjGetRequests(k, v, p)
  \/ \E k \in KeyHeaders, v \in 1..2, r \in 1..2 : OpenkjProcessRequest(k, v, r)
  \/ \E t \in Tenants, k \in 1..2 : RevokeApiKey(t, k)

SpecOpenkj == InitOpenkj /\ [][NextOpenkj]_vars

LegacyOps ==
  {"openkjGetVenue", "openkjGetSongs", "openkjSync", "openkjGetRequests", "openkjProcess"}

\* The tenants that own the stored key of text `key`, whatever its status.
KeyTenants(key) == {k.customerProfileId : k \in {x \in apiKeys : x.apiKeyHash = <<"sha256", key>>}}

\* The venues, systems, entries and requests of the tenants other than `tenants`.
DataOfOthers(vs, ys, gs, rs, tenants) ==
  <<{v \in vs : v.customerProfileId \notin tenants},
    {y \in ys : y.customerProfileId \notin tenants},
    {g \in gs : g.customerProfileId \notin tenants},
    {r \in rs : \E v \in vs : v.id = r.venueId /\ v.customerProfileId \notin tenants}>>

\* C6: a legacy endpoint called with no key, an unknown key or a key that is not
\* active answers 401, reads and writes no tenant's data and leaves the store as it
\* was; called with an active key it reads and writes rows of the key's tenant only,
\* and leaves the venues, systems, entries and requests of every other tenant as
\* they were.
C6_LegacyKeyGuardsTenantData ==
  [][(last'.op \in LegacyOps)
       => IF \/ last'.key = NULL
             \/ ~\E k \in apiKeys : k.apiKeyHash = <<"sha256", last'.key>> /\ k.status = "active"
          THEN /\ last'.status = AuthenticationStatus
               /\ last'.reads = {}
               /\ last'.writes = {}
               /\ UNCHANGED dbVars
          ELSE /\ last'.status # AuthenticationStatus
               /\ last'.reads \cup last'.writes \subseteq KeyTenants(last'.key)
               /\ DataOfOthers(venues', systems', songs', requests', KeyTenants(last'.key))
                    = DataOfOthers(venues, systems, songs, requests, KeyTenants(last'.key))]_vars

\* C6 happens: a key that had been used with success was revoked and was then turned
\* away with 401, while the other tenant's legacy ids are the same as the key's.
C6_Witness ==
  /\ last.op \in LegacyOps
  /\ last.status = AuthenticationStatus
  /\ last.key # NULL
  /\ \E k \in apiKeys :
       /\ k.apiKeyHash = <<"sha256", last.key>>
       /\ k.status = "revoked"
       /\ k.lastUsedAt # NULL

\* C6, valid key: a sync with t1's key stored an entry for t1 alone.
C6_WitnessValid ==
  /\ last.op = "openkjSync"
  /\ last.status = OkStatus
  /\ last.imported >= 1
  /\ last.writes = {last.caller}

\* ------------------------------------------------------------------ concurrent creation
\* Two tenants right after signup: no venue, no system, no State row; two requests
\* may be in flight at once.
InitSerial ==
  /\ venues = {}
  /\ systems = {}
  /\ songs = {}
  /\ requests = {}
  /\ history = <<>>
  /\ apiKeys = {}
  /\ serial = [t \in Tenants |-> 0]
  /\ nextId = [venue |-> 1, system |-> 1, song |-> 1, request |-> 1, key |-> 1]
  /\ procs = [p \in Procs |-> Idle]
  /\ NoSessions
  /\ last = [op |-> "none", status |-> OkStatus]

NextSerial ==
  \/ \E p \in Procs, t \in Tenants, u \in {"u1", "u2"} : CreateVenueCheck(p, t, u, TRUE)
  \/ \E p \in Procs : CreateVenueUpsert(p)
  \/ \E p \in Procs : CreateVenueInsert(p)
  \/ \E p \in Procs, t \in Tenants : CreateSystemUpsert(p, t, "sysA")
  \/ \E p \in Procs : CreateSystemInsert(p)

SpecSerial == InitSerial /\ [][NextSerial]_vars

\* C7: whatever the interleaving of the statements of concurrent createVenue and
\* createSystem calls, no two venues of one tenant carry the same openkjVenueId and
\* no two systems of one tenant the same openkjSystemId, and no two calls in flight
\* of one tenant hold the same serial.
C7_LegacyIdsDistinct ==
  /\ \A v1, v2 \in venues :
       (v1.customerProfileId = v2.customerProfileId /\ v1.openkjVenueId = v2.openkjVenueId)
         => v1.id = v2.id
  /\ \A y1, y2 \in systems :
       (y1.customerProfileId = y2.customerProfileId /\ y1.openkjSystemId = y2.openkjSystemId)
         => y1.id = y2.id
  /\ \A p, q \in Procs :
       (/\ p # q
        /\ procs[p].pc \in {"venueCreate", "systemCreate"}
        /\ procs[q].pc \in {"venueCreate", "systemCreate"}
        /\ procs[p].caller = procs[q].caller)
         => procs[p].state # procs[q].state

\* C7 happens: two createVenue calls of one tenant overlapped, and the one that took
\* its serial second inserted its venue first.
C7_Witness ==
  \E v1, v2 \in venues :
    /\ v1.customerProfileId = v2.customerProfileId
    /\ v1.openkjVenueId < v2.openkjVenueId
    /\ v1.id > v2.id

\* C7, systems: two createSystem calls of one tenant overlapped in the same way.
C7_WitnessSystems ==
  \E y1, y2 \in systems :
    /\ y1.customerProfileId = y2.customerProfileId
    /\ y1.openkjSystemId < y2.openkjSystemId
    /\ y1.id > y2.id

\* ------------------------------------------------------------------ imports with failures
\* The positions of a batch at which a store statement throws.
FailingSets(list) == {f \in SUBSET (1..Len(list)) : Cardinality(f) <= 2}

\* Batches with one, two and three songs, the longer ones with a repeated song.
ImportBatches == {<<SongA>>, <<SongBSplit, SongB>>, <<SongADup, SongB, SongA>>}

NextImport ==
  \/ \E t \in Tenants, y \in 1..2, b \in ImportBatches :
       \E f \in FailingSets(b) : nextId.song <= MaxSongId /\ BulkImportSongs(t, y, b, f)
  \/ \E t \in Tenants, y \in 1..2 : DeleteBulkSongs(t, y)

SpecImport == InitCatalog /\ [][NextImport]_vars

\* C11: a bulk import on an owned system answers counters that add up to the number
\* of songs sent; each song whose store statement throws adds one to errors and
\* stores nothing, and every other song of the batch is still imported or skipped:
\* imported (and stored) when no entry of its normalized form was held and no
\* earlier song of that form got through, skipped otherwise.
C11_CountersAddUp ==
  [][(last'.op = "bulkImport" /\ last'.status = OkStatus)
       => LET n == Len(last'.list)
              norm(j) == normalizeSongName(Combined(last'.list[j].artist, last'.list[j].title))
              held(j) == \E g \in songs : /\ g.customerProfileId = last'.caller
                                          /\ g.openkjSystemId = last'.openkjSystemId
                                          /\ g.normalizedCombined = norm(j)
              earlier(j) == \E i \in 1..(j - 1) : i \notin last'.failing /\ norm(i) = norm(j)
          IN /\ last'.imported + last'.skipped + last'.errors = n
             /\ last'.errors = Cardinality(last'.failing)
             /\ Len(last'.outcome) = n
             /\ \A j \in 1..n :
                  last'.outcome[j] =
                    IF j \in last'.failing THEN "error"
                    ELSE IF held(j) \/ earlier(j) THEN "skipped" ELSE "imported"
             /\ Cardinality(songs') = Cardinality(songs) + last'.imported]_vars

\* C11 happens: the first song of a batch failed and a later song of the same batch
\* was imported.
C11_Witness ==
  /\ last.op = "bulkImport"
  /\ last.status = OkStatus
  /\ last.errors >= 1
  /\ \E i, j \in 1..Len(last.list) :
       i < j /\ last.outcome[i] = "error" /\ last.outcome[j] = "imported"

\* ------------------------------------------------------------------ import and export
NextExport ==
  \/ \E t \in Tenants, b \in Batches :
       nextId.song <= MaxSongId /\ BulkImportSongs(t, 1, b, {})
  \/ \E t \in Tenants, y \in 1..2 : ExportSongs(t, y)
  \/ \E t \in Tenants, y \in 1..2 : DeleteSong(t, y)

SpecExport == InitCatalog /\ [][NextExport]_vars

\* The spelling an entry is stored under.
Spelling(g) == [artist |-> g.artist, title |-> g.title, combined |-> g.combined]

\* C12: a bulk import leaves every stored entry as it was, and a song it skips is
\* held afterwards under the spelling stored before the call or, if none was, under
\* the spelling of the first song of its normalized form in the list; an export of a
\* system returns the artist and title of each of its entries exactly once and
\* nothing else, hence the first-imported spelling and never the skipped one.
C12_SkipKeepsFirstSpelling ==
  [][/\ (last'.op = "bulkImport" /\ last'.status = OkStatus)
          => /\ songs \subseteq songs'
             /\ \A j \in 1..Len(last'.list) :
                  last'.outcome[j] = "skipped"
                    => LET norm == NormOf(last'.list[j])
                           held == EntriesWith(songs, last'.caller, last'.openkjSystemId, norm)
                           kept == EntriesWith(songs', last'.caller, last'.openkjSystemId, norm)
                           first == CHOOSE i \in 1..j : /\ NormOf(last'.list[i]) = norm
                                                       /\ \A h \in 1..(i - 1) :
                                                            NormOf(last'.list[h]) # norm
                       IN /\ Cardinality(kept) = 1
                          /\ held # {} => kept = held
                          /\ held = {} =>
                               \A g \in kept :
                                 Spelling(g) =
                                   [artist |-> last'.list[first].artist,
                                    title |-> last'.list[first].title,
                                    combined |-> last'.list[first].artist
                                                   \o <<" ", "-", " ">>
                                                   \o last'.list[first].title]
     /\ (last'.op = "exportSongs" /\ last'.status = OkStatus)
          => \A y \in systems :
               (y.id = last'.systemId)
                 => LET rows == EntriesUnder(songs, y)
                    IN /\ songs' = songs
                       /\ DOMAIN last'.songs =
                            {[artist |-> g.artist, title |-> g.title] : g \in rows}
                       /\ \A e \in DOMAIN last'.songs : last'.songs[e] = 1
                       /\ \A g1, g2 \in rows :
                            g1.normalizedCombined = g2.normalizedCombined => g1 = g2]_vars

\* C12 happens: an import skipped a song spelled otherwise than the stored entry of
\* its normalized form, and the entry still has its own spelling.
C12_Witness ==
  /\ last.op = "bulkImport"
  /\ last.status = OkStatus
  /\ \E j \in 1..Len(last.list) :
       /\ last.outcome[j] = "skipped"
       /\ \E g \in EntriesWith(songs, last.caller, last.openkjSystemId, NormOf(last.list[j])) :
            /\ g.id < nextId.song - last.imported
            /\ g.artist # last.list[j].artist
            /\ g.title # last.list[j].title

\* C12, export: an export returned two entries, each once, one of them under the
\* spelling of SongA while SongADup has the same normalized form.
C12_WitnessExport ==
  /\ last.op = "exportSongs"
  /\ last.status = OkStatus
  /\ Cardinality(DOMAIN last.songs) = 2
  /\ [artist |-> SongA.artist, title |-> SongA.title] \in DOMAIN last.songs
  /\ [artist |-> SongADup.artist, title |-> SongADup.title] \notin DOMAIN last.songs

\* ------------------------------------------------------------------ venue names
\* Bodies of PUT .../venues/:venueId as a client may send them, one of them with a
\* urlName, which updateVenueSchema and updateVenue do not know.
RenameBodies == {[acceptingRequests |-> FALSE], [urlName |-> "u1"], [urlName |-> "u3"]}

NextVenues ==
  \/ \E p \in Procs, t \in Tenants, u \in {"u1", "u2"} : CreateVenueCheck(p, t, u, TRUE)
  \/ \E p \in Procs : CreateVenueUpsert(p)
  \/ \E p \in Procs : CreateVenueInsert(p)
  \/ \E t \in Tenants, v \in 1..2, d \in RenameBodies : UpdateVenue(t, v, d)
  \/ \E t \in Tenants, v \in 1..2 : DeleteVenue(t, v)

SpecVenues == InitSerial /\ [][NextVenues]_vars

\* C13: no two stored venues, of one tenant or of two, have the same urlName; a
\* createVenue whose urlName is in use when it looks answers 409 and stores no venue
\* (one whose urlName is taken only by the time it inserts stores none either); no
\* updateVenue changes the urlName of a venue.
C13_UrlNameUnique ==
  [][/\ \A v1, v2 \in venues' : v1.urlName = v2.urlName => v1 = v2
     /\ (last'.op = "createVenue" /\ last' # last)
          => /\ (last'.status = ConflictStatus)
                  => /\ \E v \in venues : v.urlName = last'.urlName
                     /\ venues' = venues
             /\ (last'.status = CreatedStatus)
                  => /\ Cardinality(venues') = Cardinality(venues) + 1
                     /\ \A v \in venues' \ venues : \A w \in venues : w.urlName # v.urlName
             /\ (last'.status = InternalStatus) => venues' = venues
     /\ (\A p \in Procs : procs[p] = Idle /\ procs'[p].pc = "venueUpsert"
                            => \A v \in venues : v.urlName # procs'[p].urlName)
     /\ (last'.op = "updateVenue")
          => \A v \in venues : \E w \in venues' : w.id = v.id /\ w.urlName = v.urlName]_vars

\* C13 happens: a createVenue of one tenant was turned away with 409 because a venue
\* of the other tenant holds the urlName.
C13_Witness ==
  /\ last.op = "createVenue"
  /\ last.status = ConflictStatus
  /\ \E v \in venues : v.urlName = last.urlName /\ v.customerProfileId # last.caller

\* C13, updates: an update that carried a urlName went through and the venue kept
\* its own.
C13_WitnessUpdate ==
  /\ last.op = "updateVenue"
  /\ last.status = OkStatus
  /\ "urlName" \in DOMAIN last.data
  /\ \E v \in venues : v.id = last.venueId /\ v.urlName # last.data.urlName

\* C13, race: two createVenue calls looked the same free urlName up before either
\* inserted; the second insert was refused by the store and answered 500.
C13_WitnessRace ==
  /\ last.op = "createVenue"
  /\ last.status = InternalStatus
  /\ Cardinality(venues) >= 1

\* ------------------------------------------------------------------ key secrecy
\* The objects a reply of a key operation is made of.
ResultObjects(l) == IF l.op = "listApiKeys" THEN l.result.apiKeys ELSE {l.result}

\* C14: a createApiKey returns a key text whose hash no stored key had, and stores
\* its hash; the results of getApiKey, listApiKeys, revokeApiKey and verifyApiKey
\* have neither a key field nor the apiKeyHash column; every stored key holds the
\* hash of a key text and no column that holds a key text.
C14_PlaintextOnlyAtCreation ==
  [][/\ (last'.op = "createApiKey")
          => /\ \A k \in apiKeys : k.apiKeyHash # <<"sha256", last'.result.key>>
             /\ \E k \in apiKeys' \ apiKeys :
                  k.id = last'.result.id /\ k.apiKeyHash = <<"sha256", last'.result.key>>
     /\ (last'.op \in {"getApiKey", "listApiKeys", "revokeApiKey", "verifyApiKey"})
          => \A o \in ResultObjects(last') :
               /\ DOMAIN o \cap {"key", "apiKeyHash"} = {}
               /\ \A f \in DOMAIN o \cap {"status", "lastUsedAt", "customerProfileId"} :
                    o[f] \notin KeyTexts
     /\ \A k \in apiKeys' :
          /\ DOMAIN k = {"id", "customerProfileId", "apiKeyHash", "status", "lastUsedAt",
                         "revokedAt"}
          /\ k.apiKeyHash \in {<<"sha256", key>> : key \in KeyTexts}
          /\ \A f \in {"customerProfileId", "status", "lastUsedAt", "revokedAt"} :
               k[f] \notin KeyTexts]_vars

\* C14 happens: a key issued by createApiKey was read back by getApiKey or listed.
C14_Witness ==
  /\ last.op \in {"getApiKey", "listApiKeys"}
  /\ last.status = OkStatus
  /\ \E o \in ResultObjects(last) :
       /\ o.id >= 4
       /\ o.status = "active"
       /\ o.lastUsedAt # NULL

\* ------------------------------------------------------------------ push notifications
\* The event type the push collaborator is to get for an operation.
EventFor(op) ==
  CASE op = "updateRequest" -> "request_updated"
    [] op = "deleteRequest" -> "request_deleted"
    [] OTHER -> "request_created"

\* C15: an operation that created, updated or deleted a request has handed the push
\* collaborator an event of its type (request_created, request_updated,
\* request_deleted) for the venue of the request.
C15_ChangeIsPushed ==
  ("pushed" \in DOMAIN last)
    => \E e \in last.pushed :
         /\ e.type = EventFor(last.op)
         /\ e.venueId = (IF "venueId" \in DOMAIN last THEN last.venueId ELSE last.data.venueId)

\* ------------------------------------------------------------------ request listing
NextListing ==
  \/ \E u \in UrlNames : SubmitGuestRequest(u, [artist |-> <<"A", "b">>, title |-> <<"B", "a">>])
  \/ \E t \in Tenants, v \in 1..2, r \in 1..MaxRequests, d \in UpdateRequestBodies :
       UpdateRequest(t, v, r, d)
  \/ \E t \in Tenants, v \in 1..2, f \in PageFilters : ListVenueRequests(t, v, f)

SpecListing == InitRequests /\ [][NextListing]_vars

\* The rows of a venue that a filter lets through, and a row's place among them.
Matching(venueId, filters) ==
  {r \in requests : /\ r.venueId = venueId
                    /\ ("processed" \in DOMAIN filters) => (r.processed = filters.processed)}

OnPage(r, rows, filters) ==
  LET place == Cardinality({x \in rows : x.id < r.id})
  IN filters.offset <= place /\ place < filters.offset + filters.limit

\* C16: when the owner has set a request to processed = true and then lists the
\* requests of that venue, the list for processed = false does not hold the request;
\* the list for processed = true, and the list without a filter, hold it (on the page
\* its place among the listed rows falls on), the former with processedAt set; and
\* every listed request belongs to the listed venue.
C16_ListFollowsProcessed ==
  [][(/\ last.op = "updateRequest" /\ last.status = OkStatus
      /\ "processed" \in DOMAIN last.data /\ last.data.processed
      /\ last'.op = "listVenueRequests" /\ last'.status = OkStatus
      /\ last'.venueId = last.venueId /\ last'.caller = last.caller)
     => LET f == last'.filters
            listed == {r \in last'.requests : r.id = last.requestId}
            rows == Matching(last'.venueId, f)
        IN /\ \A r \in last'.requests : r.venueId = last'.venueId
           /\ IF "processed" \in DOMAIN f /\ ~f.processed
              THEN listed = {}
              ELSE /\ \A r \in requests : (r.id = last.requestId /\ OnPage(r, rows, f))
                                             => r \in listed
                   /\ \E r \in requests : r.id = last.requestId
                   /\ ("processed" \in DOMAIN f) => \A r \in listed : r.processedAt # NULL
           /\ last'.total = Cardinality(rows)]_vars

\* A list for processed = true that holds a request with processedAt set, while the
\* venue also has a pending request that the list leaves out.
C16_Witness ==
  /\ last.op = "listVenueRequests" /\ last.status = OkStatus
  /\ "processed" \in DOMAIN last.filters /\ last.filters.processed
  /\ \E r \in last.requests : r.processedAt # NULL
  /\ \E r \in requests : r.venueId = last.venueId /\ ~r.processed /\ r \notin last.requests

\* A list for processed = false that leaves out a processed request of the venue.
C16_WitnessPending ==
  /\ last.op = "listVenueRequests" /\ last.status = OkStatus
  /\ "processed" \in DOMAIN last.filters /\ ~last.filters.processed
  /\ \E r \in requests : r.venueId = last.venueId /\ r.processed /\ r \notin last.requests

\* ------------------------------------------------------------------ sessions
InitAuth ==
  /\ venues = {}
  /\ systems = {}
  /\ songs = {}
  /\ requests = {}
  /\ history = <<>>
  /\ apiKeys = {}
  /\ serial = [t \in Tenants |-> 0]
  /\ nextId = [venue |-> 1, system |-> 1, song |-> 1, request |-> 1, key |-> 1]
  /\ procs = <<>>
  /\ last = [op |-> "none", status |-> OkStatus]
  /\ config \in Configs
  /\ now = 0
  /\ tokens = {}
  /\ denylist = {}
  /\ userRevoked = {}

\* What a client may send to /refresh: a token it was handed, or another string.
Presented == {t.jti : t \in tokens} \cup {NoToken}

\* What a client may send as Bearer: an access token it was handed, or another string.
Bearers == {t.jti : t \in {a \in tokens : a.kind = "access"}} \cup {NoToken}

\* Sign-in, token rotation and the passing of time.
NextRefresh ==
  \/ \E ok \in BOOLEAN : SignIn("t1", ok)
  \/ \E j \in Presented, g \in BOOLEAN, x \in BOOLEAN : Refresh(j, g, x)
  \/ Expire
  \/ Pass(300)

SpecRefresh == InitAuth /\ [][NextRefresh]_vars

\* Sign-in, logout, authenticated requests and the passing of time.
NextLogout ==
  \/ \E ok \in BOOLEAN : SignIn("t1", ok)
  \/ \E j \in Bearers, g \in BOOLEAN, x \in BOOLEAN : Logout(j, g, x)
  \/ \E j \in Bearers, g \in BOOLEAN : AuthenticatedRequest(j, g)
  \/ Expire
  \/ Pass(300)

SpecLogout == InitAuth /\ [][NextLogout]_vars

\* C17 (as claimed): a /refresh with a token for which an earlier /refresh answered 200
\* answers 401 and issues no tokens, and a /refresh that answers 200 returns a refresh
\* token other than the submitted one.
C17_SpentRefreshTokenRejected ==
  [][(last'.op = "refresh")
     => /\ (\E t \in tokens : t.jti = last'.token /\ t.rotated)
             => (last'.status = AuthenticationStatus /\ tokens' = tokens)
        /\ (last'.status = OkStatus) => (last'.refreshToken # last'.token)]_vars

\* The same for the steps in which Redis answers.
C17_RejectedWhileRedisAnswers ==
  [][(last'.op = "refresh" /\ last'.redis[1])
     => ((\E t \in tokens : t.jti = last'.token /\ t.rotated /\ t.kind = "refresh")
           => (last'.status = AuthenticationStatus /\ tokens' = tokens))]_vars

\* The same while Redis answers and the refresh token does not outlive the seven days
\* of its revoked key.
C17_RejectedWhileKeyLives ==
  [][(/\ last'.op = "refresh"
      /\ last'.redis[1]
      /\ parseExpiry(config.JWT_REFRESH_EXPIRY) <= RefreshRevokeSeconds)
     => /\ (\E t \in tokens : t.jti = last'.token /\ t.rotated /\ t.kind = "refresh")
             => (last'.status = AuthenticationStatus /\ tokens' = tokens)
        /\ (last'.status = OkStatus) => (last'.refreshToken # last'.token)]_vars

\* C18 (as claimed): a request that authenticates with a token for which /logout
\* answered 204 is answered 401.
C18_LoggedOutTokenRejected ==
  [][(/\ last'.op = "authenticate"
      /\ \E t \in tokens : t.jti = last'.token /\ t.loggedOut)
     => last'.status = AuthenticationStatus]_vars

\* The same for the steps in which Redis answers.
C18_RejectedWhileRedisAnswers ==
  [][(/\ last'.op = "authenticate"
      /\ last'.redis[1]
      /\ \E t \in tokens : t.jti = last'.token /\ t.loggedOut)
     => last'.status = AuthenticationStatus]_vars

\* The same while Redis answers and the access token does not outlive the fifteen
\* minutes of its revoked key.
C18_RejectedWhileKeyLives ==
  [][(/\ last'.op = "authenticate"
      /\ last'.redis[1]
      /\ parseExpiry(config.JWT_ACCESS_EXPIRY) <= LogoutRevokeSeconds
      /\ \E t \in tokens : t.jti = last'.token /\ t.loggedOut /\ t.kind = "access")
     => last'.status = AuthenticationStatus]_vars

\* ------------------------------------------------------------------ catalog search
\* Search texts of one and of two characters, and one that no entry holds.
Searches == {<<"b">>, <<"a", "B">>, <<"x", "y">>}

SearchFilters ==
  {NoFields}
    \cup {[systemId |-> y] : y \in 1..2}
    \cup {[search |-> q] : q \in Searches}
    \cup {[systemId |-> y, search |-> q] : y \in 1..2, q \in Searches}

NextSearch ==
  \/ \E t \in Tenants, y \in 1..2, b \in ImportBatches :
       nextId.song <= MaxSongId /\ BulkImportSongs(t, y, b, {})
  \/ \E t \in Tenants, f \in SearchFilters, l \in {1, DefaultLimit}, o \in {0, 1} :
       SearchSongs(t, f, l, o)

SpecSearch == InitCatalog /\ [][NextSearch]_vars

\* C19 (as claimed): a search text of fewer than two characters is answered as invalid
\* input and no search runs; a systemId that is no system of the caller is answered
\* not-found; every entry returned is an entry of the caller.
C19_SearchChecksItsInput ==
  (last.op = "searchSongs")
    => /\ ("search" \in DOMAIN last.filters /\ Len(last.filters.search) < 2)
            => (last.status = ValidationStatus /\ "songs" \notin DOMAIN last)
       /\ ("systemId" \in DOMAIN last.filters
             /\ \A y \in systems : y.id = last.filters.systemId
                                     => y.customerProfileId # last.caller)
            => last.status = NotFoundStatus
       /\ ("songs" \in DOMAIN last)
            => \A e \in last.songs :
                 \E r \in songs : r.id = e.id /\ r.customerProfileId = last.caller

\* The second and third part alone: not-found for a system of another tenant, and
\* only entries of the caller, of the system asked for, that hold the search text.
C19_SearchStaysInTenant ==
  (last.op = "searchSongs")
    => /\ ("systemId" \in DOMAIN last.filters
             /\ \A y \in systems : y.id = last.filters.systemId
                                     => y.customerProfileId # last.caller)
            => last.status = NotFoundStatus
       /\ ("songs" \in DOMAIN last)
            => \A e \in last.songs :
                 \E r \in songs :
                   /\ r.id = e.id /\ r.customerProfileId = last.caller
                   /\ ("systemId" \in DOMAIN last.filters)
                        => \E y \in systems : /\ y.id = last.filters.systemId
                                              /\ y.openkjSystemId = r.openkjSystemId

\* ------------------------------------------------------------------ pagination
\* Values of limit and offset in a query: numbers and decimal texts below, inside and
\* above the range, and texts that are no integer.
LimitInputs ==
  {Num(0), Num(5), Num(150), Num(0 - 1),
   Str(<<"0">>), Str(<<"7">>), Str(<<"1", "0", "0">>), Str(<<"1", "0", "1">>),
   Str(<<"-", "4">>), Str(<<"a", "b", "c">>), Str(<<"1", "2", "p", "x">>)}

OffsetInputs ==
  {Num(0), Num(3), Num(0 - 2), Str(<<"1", "2">>), Str(<<"-", "2">>), Str(<<"x">>)}

Queries ==
  {NoFields}
    \cup {[limit |-> l] : l \in LimitInputs}
    \cup {[offset |-> o] : o \in OffsetInputs}
    \cup {[limit |-> l, offset |-> o] : l \in LimitInputs, o \in OffsetInputs}
    \cup {[limit |-> Str(<<"7">>), cursor |-> Str(<<"1", "2">>)]}

NextPagination ==
  \/ \E q \in Queries : ParsePagination(q)
  \/ \E total \in {Undefined, Num(3)}, limit \in {1, 2, DefaultLimit, MaxLimit},
        offset \in {0, 1, DefaultLimit}, dataLength \in 0..2 :
       CreatePagination(total, limit, offset, dataLength)

SpecPagination == InitCatalog /\ [][NextPagination]_vars

\* A number, or the decimal text of an integer.
IntegerValued(v) ==
  \/ v.type = "number"
  \/ /\ v.type = "string" /\ v.value # <<>>
     /\ LET digits == IF Head(v.value) = "-" THEN Tail(v.value) ELSE v.value
        IN digits # <<>> /\ \A i \in 1..Len(digits) : digits[i] \in DecimalChars

\* The number a decimal text of digits stands for.
RECURSIVE DecimalNumber(_)
DecimalNumber(text) ==
  IF text = <<>> THEN 0
  ELSE 10 * DecimalNumber(SubSeq(text, 1, Len(text) - 1))
         + (CHOOSE d \in 0..9 : Decimal[d + 1] = text[Len(text)])

\* C20: for integer-valued limit and offset, parsePaginationParams returns a limit
\* within 1..100, which is 20 when the query has no limit, and an offset of at least 0,
\* which is 0 when the query has no offset; createPaginationInfo sets hasMore exactly
\* when the number of returned items is the limit, with nextCursor offset + limit
\* then and null otherwise.
C20_PaginationWithinBounds ==
  /\ (/\ last.op = "parsePaginationParams"
      /\ \A f \in DOMAIN last.query \cap {"limit", "offset"} : IntegerValued(last.query[f]))
       => /\ last.params.limit.type = "number"
          /\ last.params.limit.value \in 1..100
          /\ ("limit" \notin DOMAIN last.query) => last.params.limit.value = 20
          /\ last.params.offset.type = "number"
          /\ last.params.offset.value >= 0
          /\ ("offset" \notin DOMAIN last.query) => last.params.offset.value = 0
  /\ (last.op = "createPaginationInfo")
       => /\ last.info.hasMore <=> (last.dataLength = last.info.limit)
          /\ IF last.dataLength = last.info.limit
             THEN /\ last.info.nextCursor.type = "string"
                  /\ DecimalNumber(last.info.nextCursor.value)
                       = last.info.offset + last.info.limit
             ELSE last.info.nextCursor = Null

\* A limit above the range was cut to 100.
C20_Witness ==
  /\ last.op = "parsePaginationParams"
  /\ "limit" \in DOMAIN last.query
  /\ IntegerValued(last.query.limit)
  /\ last.query.limit \in {Num(150), Str(<<"1", "0", "1">>)}
  /\ last.params.limit = Num(100)

\* A full page points to the next one.
C20_WitnessFullPage ==
  /\ last.op = "createPaginationInfo"
  /\ last.info.hasMore
  /\ last.info.nextCursor = Str(<<"2", "1">>)

\* ------------------------------------------------------------------ concurrent imports
\* The catalog of InitCatalog, with two requests in flight at a time.
InitRace ==
  /\ venues = {}
  /\ systems = {[id |-> 1, customerProfileId |-> "t1", openkjSystemId |-> 1, name |-> "sysA"],
                [id |-> 2, customerProfileId |-> "t2", openkjSystemId |-> 1, name |-> "sysA"]}
  /\ songs = {}
  /\ requests = {}
  /\ history = <<>>
  /\ apiKeys = SeedKeys
  /\ serial = [t \in Tenants |-> 1]
  /\ nextId = [venue |-> 1, system |-> 3, song |-> 1, request |-> 1, key |-> 3]
  /\ procs = [p \in Procs |-> Idle]
  /\ NoSessions
  /\ last = [op |-> "none", status |-> OkStatus]

RaceBatches == {<<SongA>>, <<SongADup, SongB>>}

NextImportRace ==
  \/ \E p \in Procs, k \in {"bulkImport", "openkjSync"}, t \in Tenants, b \in RaceBatches :
       ImportBegin(p, k, t, 1, b)
  \/ \E p \in Procs : ImportFind(p)
  \/ \E p \in Procs : ImportCreate(p)
  \/ \E t \in Tenants, y \in 1..2 : DeleteSystem(t, y)

SpecImportRace == InitRace /\ [][NextImportRace]_vars

\* C21 (as claimed): the catalog never holds two entries of one tenant and legacy
\* system id with equal normalizedCombined.
C21_NoDuplicateEntries ==
  \A g \in songs, h \in songs :
    (/\ g.customerProfileId = h.customerProfileId
     /\ g.openkjSystemId = h.openkjSystemId
     /\ g.normalizedCombined = h.normalizedCombined) => g.id = h.id

\* C22 (as claimed): every catalog entry's tenant and legacy system id are those of a
\* stored system.
C22_EntriesHaveSystem ==
  \A g \in songs : \E y \in systems : /\ y.customerProfileId = g.customerProfileId
                                      /\ y.openkjSystemId = g.openkjSystemId

\* ------------------------------------------------------------------ concurrent requests
\* Both venues open, two requests in flight at a time.
InitRequestRace ==
  /\ venues = {[v EXCEPT !.acceptingRequests = TRUE] : v \in SeedVenues}
  /\ systems = {}
  /\ songs = {}
  /\ requests = {}
  /\ history = <<>>
  /\ apiKeys = SeedKeys
  /\ serial = [t \in Tenants |-> 1]
  /\ nextId = [venue |-> 3, system |-> 1, song |-> 1, request |-> 1, key |-> 3]
  /\ procs = [p \in Procs |-> Idle]
  /\ NoSessions
  /\ last = [op |-> "none", status |-> OkStatus]

\* What the guest and the singer route pass to createRequest for a venue.
RequestData(venueId) ==
  {[venueId |-> venueId, singerProfileId |-> NULL, submittedByUserId |-> NULL,
    artist |-> <<"A", "b">>, title |-> <<"B", "a">>]}
    \cup {[venueId |-> venueId, singerProfileId |-> s, submittedByUserId |-> UserOf(s),
           artist |-> <<"A", "b">>, title |-> <<"B", "a">>] : s \in Singers}

OpOf(data) == IF data.singerProfileId = NULL THEN "guestRequest" ELSE "singerRequest"

NextRequestRace ==
  \/ \E p \in Procs, v \in 1..2 : \E d \in RequestData(v) : RequestCheck(p, OpOf(d), d)
  \/ \E p \in Procs : RequestInsert(p)
  \/ \E p \in Procs, w \in BOOLEAN : RequestHistory(p, w)
  \/ \E t \in Tenants, v \in 1..2, d \in UpdateVenueBodies : UpdateVenue(t, v, d)
  \/ \E t \in Tenants, v \in 1..2 : DeleteVenue(t, v)

SpecRequestRace == InitRequestRace /\ [][NextRequestRace]_vars

\* C23 (as claimed): a request row is inserted only for a venue that exists and has
\* acceptingRequests = true at the moment of the insert.
C23_InsertOnlyWhileAccepting ==
  [][\A r \in requests' \ requests :
       \E v \in venues : v.id = r.venueId /\ v.acceptingRequests]_vars

\* The part of C23 about the venue's existence alone.
C23_InsertOnlyForStoredVenue ==
  [][\A r \in requests' \ requests : \E v \in venues : v.id = r.venueId]_vars

\* C24 (as claimed): when a singer's createRequest answers, either it answers 201 and
\* its request and history entry are stored, or it answers an error and no request row
\* of the call is stored.
C24_SingerRequestAllOrNothing ==
  [][(last' # last /\ last'.op = "singerRequest")
     => IF last'.status = CreatedStatus
        THEN /\ last'.request \in requests'
             /\ \E i \in 1..Len(history') : history'[i] = NewHistory(last'.data)
        ELSE \A r \in requests' : r.id \notin last'.inserted]_vars

\* ------------------------------------------------------------------ one request at a time
\* Tenant t1 runs two venues, tenant t2 one; all of them take requests.
FrameVenues ==
  {[id |-> 1, customerProfileId |-> "t1", openkjVenueId |-> 1, urlName |-> "u1",
    acceptingRequests |-> TRUE],
   [id |-> 2, customerProfileId |-> "t2", openkjVenueId |-> 1, urlName |-> "u2",
    acceptingRequests |-> TRUE],
   [id |-> 3, customerProfileId |-> "t1", openkjVenueId |-> 2, urlName |-> "u3",
    acceptingRequests |-> TRUE]}

InitFrame == InitStore(FrameVenues, SeedKeys)

\* What the customer sends to mark a request, or to annotate it.
FrameBodies == {[processed |-> TRUE], [notes |-> "n2"]}

\* Who calls for which venue: each tenant for its own venues, and t2 for one of t1's.
FrameCalls == {<<"t1", 1>>, <<"t1", 3>>, <<"t2", 2>>, <<"t2", 1>>}

\* Singers sing at u1 and guests ask at u3, the two venues of t1.
NextFrame ==
  \/ SubmitGuestRequest("u3", [artist |-> <<"A", "b">>, title |-> <<"B", "a">>])
  \/ \E s \in Singers :
       SubmitSingerRequest(s, "u1", [artist |-> <<"A", "b">>, title |-> <<"B", "a">>])
  \/ \E c \in FrameCalls, r \in 1..MaxRequests, d \in FrameBodies :
       UpdateRequest(c[1], c[2], r, d)
  \/ \E c \in FrameCalls, r \in 1..MaxRequests : DeleteRequest(c[1], c[2], r)
  \/ \E v \in 1..2, r \in 1..MaxRequests : OpenkjProcessRequest("sk_a", v, r)

SpecFrame == InitFrame /\ [][NextFrame]_vars

\* The request a reply is about: the id and the venue the call named, the venue by its
\* id for the customer routes and by the key's tenant and legacy id for the device route.
Addressed(r, reply) ==
  /\ "requestId" \in DOMAIN reply
  /\ r.id = reply.requestId
  /\ IF reply.op = "openkjProcess"
     THEN \E v \in venues : /\ v.id = r.venueId
                            /\ v.customerProfileId = reply.caller
                            /\ v.openkjVenueId = reply.openkjVenueId
     ELSE r.venueId = reply.venueId

\* C25: updateRequest, deleteRequest and the legacy process operation change or remove
\* only the request whose id and venue both match the call; a reply of not-found leaves
\* every request as it was, and no history entry is changed by any of the three.
C25_OnlyAddressedRequestChanges ==
  [][last'.op \in {"updateRequest", "deleteRequest", "openkjProcess"} =>
       /\ history' = history
       /\ \A r \in requests \ requests' : Addressed(r, last')
       /\ \A r \in requests' \ requests :
            \E q \in requests \ requests' : q.id = r.id /\ q.venueId = r.venueId
       /\ last'.status = NotFoundStatus => requests' = requests]_vars

\* A customer call named a request of the caller's other venue and got not-found,
\* with a history entry on file.
C25_Witness ==
  /\ last.op \in {"updateRequest", "deleteRequest"}
  /\ last.status = NotFoundStatus
  /\ history # <<>>
  /\ \E r \in requests, v \in venues :
       /\ r.id = last.requestId
       /\ v.id = r.venueId
       /\ v.id # last.venueId
       /\ v.customerProfileId = last.caller
       /\ VenueOwnedBy(last.venueId, last.caller) # {}

\* The device route named a request of the tenant's other venue and got not-found.
C25_WitnessProcess ==
  /\ last.op = "openkjProcess"
  /\ last.status = NotFoundStatus
  /\ \E r \in requests, v \in venues :
       /\ v.id = r.venueId
       /\ v.customerProfileId = last.caller
       /\ v.openkjVenueId # last.openkjVenueId
       /\ VenueByLegacyId(last.openkjVenueId, last.caller) # {}

\* ------------------------------------------------------------------ two ways to import
\* The customer import and the device sync fill the same catalogs; deleting one song or
\* a system's songs leaves catalogs of every shape behind.
TwoImportBatches == {<<SongA>>, <<SongADup, SongB>>, <<SongBSplit, SongB, SongA>>}

NextTwoImports ==
  \/ \E t \in Tenants, y \in 1..2, b \in TwoImportBatches :
       nextId.song <= MaxSongId /\ BulkImportSongs(t, y, b, {})
  \/ \E y \in 1..2, b \in TwoImportBatches :
       nextId.song <= MaxSongId /\ OpenkjSyncSongs("sk_a", y, b)
  \/ \E t \in Tenants, g \in 1..MaxSongId : DeleteSong(t, g)

SpecTwoImports == InitCatalog /\ [][NextTwoImports]_vars

\* What an import stored, without the row ids the database hands out.
EntriesStored(rows) ==
  {[customerProfileId |-> g.customerProfileId, openkjSystemId |-> g.openkjSystemId,
    artist |-> g.artist, title |-> g.title, combined |-> g.combined,
    normalizedCombined |-> g.normalizedCombined] : g \in rows}

\* C26: on the same catalog, for the same tenant, legacy system id and list of songs, the
\* device sync stores the entries the customer import would store and reports its
\* imported and skipped counts, and the other way round (no store statement failing).
C26_SyncMatchesImport ==
  [][/\ (last'.op = "openkjSync" /\ last'.status = OkStatus) =>
          LET done == ImportLoop(ImportStart, last'.caller, last'.system_id, last'.list,
                                 Len(last'.list), {})
          IN /\ EntriesStored(songs' \ songs) = EntriesStored(done.rows \ songs)
             /\ last'.imported = done.imported
             /\ last'.skipped = done.skipped
     /\ (last'.op = "bulkImport" /\ last'.status = OkStatus /\ last'.failing = {}) =>
          LET done == SyncLoop([rows |-> songs, nextSong |-> nextId.song,
                                imported |-> 0, skipped |-> 0, found |-> {}],
                               last'.caller, last'.openkjSystemId, last'.list,
                               Len(last'.list))
          IN /\ EntriesStored(songs' \ songs) = EntriesStored(done.rows \ songs)
             /\ last'.imported = done.imported
             /\ last'.skipped = done.skipped]_vars

\* A sync that skipped one song of its list and stored another, on a catalog the
\* customer import had filled.
C26_Witness ==
  /\ last.op = "openkjSync"
  /\ last.status = OkStatus
  /\ last.imported > 0
  /\ last.skipped > 0
  /\ Cardinality(songs) > last.imported

\* ------------------------------------------------------------------ password reset
\* Sign-in, password reset, token rotation and authenticated requests while Redis
\* answers, and the passing of time.
NextReset ==
  \/ \E ok \in BOOLEAN : SignIn("t1", ok)
  \/ \E ok \in BOOLEAN, up \in BOOLEAN : ResetPassword("t1", ok, up)
  \/ \E j \in Presented : Refresh(j, TRUE, TRUE)
  \/ \E j \in Presented : AuthenticatedRequest(j, TRUE)
  \/ Expire

SpecReset == InitAuth /\ [][NextReset]_vars

\* C27 (as claimed): a token issued to a user before a completed password reset of that
\* user is answered 401 by `authenticate` and by POST /auth/refresh.
C27_TokensBeforeResetRejected ==
  [][(/\ last'.op \in {"authenticate", "refresh"}
      /\ \E t \in tokens : t.jti = last'.token /\ t.reset)
     => last'.status = AuthenticationStatus]_vars

\* What does hold: a completed reset leaves the key user:revoked:<userId> behind.
C27_ResetWritesUserKey ==
  [][(last'.op = "resetPassword" /\ last'.status = OkStatus)
     => \E e \in userRevoked' : e.userId = last'.userId /\ e.revokedAt = now]_vars

\* ------------------------------------------------------------------ concurrent refresh
\* The default settings, Redis answering every read, two requests in flight at a time
\* and no time passing: what is left is the interleaving of the handler's steps.
InitRefreshRace ==
  /\ venues = {}
  /\ systems = {}
  /\ songs = {}
  /\ requests = {}
  /\ history = <<>>
  /\ apiKeys = {}
  /\ serial = [t \in Tenants |-> 0]
  /\ nextId = [venue |-> 1, system |-> 1, song |-> 1, request |-> 1, key |-> 1]
  /\ procs = [p \in Procs |-> Idle]
  /\ NoSessions
  /\ last = [op |-> "none", status |-> OkStatus]

NextRefreshRace ==
  \/ SignIn("t1", TRUE)
  \/ \E p \in Procs, j \in Presented : RefreshCheck(p, j, TRUE)
  \/ \E p \in Procs, x \in BOOLEAN : RefreshRevoke(p, x)

SpecRefreshRace == InitRefreshRace /\ [][NextRefreshRace]_vars

\* C28 (as claimed): a refresh token is exchanged for a new pair at most once: a
\* /refresh answered 200 carried a token no earlier /refresh was answered 200 for.
C28_ExchangedAtMostOnce ==
  [][(last'.op = "refresh" /\ last'.status = OkStatus /\ last' # last)
     => \E t \in tokens : t.jti = last'.token /\ ~t.rotated]_vars

\* What does hold without time passing: a /refresh that starts after an exchange of
\* its token has been answered is turned away.
C28_CheckSeesEarlierExchange ==
  [][\A p \in Procs :
       (procs[p] = Idle /\ procs'[p] # Idle /\ procs'[p].pc = "refreshRevoke")
         => \E t \in tokens : t.jti = procs'[p].token /\ ~t.rotated]_vars

\* ------------------------------------------------------------------ serials over time
\* Venues and systems are created, two calls at a time, and deleted; both tenants want
\* the urlName u1, and t1 runs the systems.
NextLegacyIds ==
  \/ \E p \in Procs, t \in Tenants : CreateVenueCheck(p, t, "u1", TRUE)
  \/ \E p \in Procs : CreateVenueUpsert(p)
  \/ \E p \in Procs : CreateVenueInsert(p)
  \/ \E p \in Procs : CreateSystemUpsert(p, "t1", "sysA")
  \/ \E p \in Procs : CreateSystemInsert(p)
  \/ \E t \in Tenants, v \in 1..MaxSerial : DeleteVenue(t, v)
  \/ \E y \in 1..MaxSerial : DeleteSystem("t1", y)

SpecLegacyIds == InitSerial /\ [][NextLegacyIds]_vars

\* The legacy ids a tenant's stored venues and systems carry and the ones its calls in
\* flight hold.
LegacyIdsInUse(t) ==
  {v.openkjVenueId : v \in {w \in venues : w.customerProfileId = t}}
    \cup {y.openkjSystemId : y \in {z \in systems : z.customerProfileId = t}}
    \cup {procs[p].state : p \in {q \in Procs : /\ procs[q].pc \in {"venueCreate", "systemCreate"}
                                                /\ procs[q].caller = t}}

\* C29: no step lowers a tenant's serial counter, deletions included; the id a creation
\* takes lies above the counter as it stood, and so above every id handed out before,
\* whether its venue or system is still stored or not; a stored venue or system carries
\* the id its own call took; a createVenue answered 409 for a taken urlName leaves the
\* counter as it was.
C29_SerialNeverReused ==
  [][/\ \A t \in Tenants :
          /\ serial'[t] >= serial[t]
          /\ \A i \in LegacyIdsInUse(t) : i <= serial[t]
          /\ \A i \in LegacyIdsInUse(t)' \ LegacyIdsInUse(t) : i > serial[t]
     /\ \A v \in venues' \ venues :
          \E p \in Procs : /\ procs[p].pc = "venueCreate"
                           /\ procs'[p] = Idle
                           /\ procs[p].caller = v.customerProfileId
                           /\ procs[p].state = v.openkjVenueId
     /\ \A y \in systems' \ systems :
          \E p \in Procs : /\ procs[p].pc = "systemCreate"
                           /\ procs'[p] = Idle
                           /\ procs[p].caller = y.customerProfileId
                           /\ procs[p].state = y.openkjSystemId
     /\ (last' # last /\ last'.op = "createVenue" /\ last'.status = ConflictStatus)
          => serial' = serial]_vars

\* A system was created after the tenant's first system had been deleted, and carries
\* the second id (no venue was ever stored, so no serial went to a venue).
C29_Witness ==
  /\ last.op = "createSystem"
  /\ last.status = CreatedStatus
  /\ nextId.venue = 1
  /\ \A p \in Procs : procs[p] = Idle
  /\ serial[last.caller] = 2
  /\ {y.openkjSystemId : y \in {z \in systems : z.customerProfileId = last.caller}} = {2}

\* A createVenue was answered 409 by a tenant whose counter had been counting.
C29_WitnessConflict ==
  /\ last.op = "createVenue"
  /\ last.status = ConflictStatus
  /\ serial[last.caller] > 0

\* ------------------------------------------------------------------ catalogs side by side
\* Both tenants run a system with legacy id 1 and work on their catalogs in turn.
IsolationFilters ==
  {NoFields, [systemId |-> 1], [systemId |-> 2], [search |-> <<"a", "B">>],
   [systemId |-> 1, search |-> <<"b">>]}

NextIsolation ==
  \/ \E t \in Tenants, y \in 1..2, b \in {<<SongA>>, <<SongADup, SongB>>} :
       nextId.song <= MaxSongId /\ BulkImportSongs(t, y, b, {})
  \/ \E t \in Tenants, f \in IsolationFilters : SearchSongs(t, f, DefaultLimit, 0)
  \/ \E t \in Tenants, y \in 1..2 : ExportSongs(t, y)
  \/ \E t \in Tenants, g \in 1..MaxSongId : DeleteSong(t, g)
  \/ \E t \in Tenants, y \in 1..2 : DeleteBulkSongs(t, y)

SpecIsolation == InitCatalog /\ [][NextIsolation]_vars

CatalogOps == {"bulkImport", "searchSongs", "exportSongs", "deleteSong", "deleteBulkSongs"}

\* What a tenant owns of the catalog data: its systems, its entries, and the entries
\* of its system `systemId`.
OwnSystems(t) == {y \in systems : y.customerProfileId = t}
OwnSongs(t) == {g \in songs : g.customerProfileId = t}
OwnCatalog(t, systemId) ==
  {g \in OwnSongs(t) : \E y \in OwnSystems(t) : y.id = systemId /\ g.openkjSystemId = y.openkjSystemId}

\* The reply `r` to a catalog call and the caller's entries after it, `after`, as they
\* follow from the caller's own systems and entries alone.
FromOwnData(r, after) ==
  LET t == r.caller
  IN CASE r.op = "bulkImport" ->
            IF {y \in OwnSystems(t) : y.openkjSystemId = r.openkjSystemId} = {}
            THEN r.status = NotFoundStatus /\ after = OwnSongs(t)
            ELSE LET done == ImportLoop([rows |-> OwnSongs(t), nextSong |-> nextId.song,
                                         imported |-> 0, skipped |-> 0, errors |-> 0,
                                         outcome |-> <<>>],
                                        t, r.openkjSystemId, r.list, Len(r.list), r.failing)
                 IN /\ r.status = OkStatus
                    /\ after = done.rows
                    /\ r.imported = done.imported
                    /\ r.skipped = done.skipped
                    /\ r.errors = done.errors
       [] r.op = "searchSongs" ->
            /\ after = OwnSongs(t)
            /\ IF "systemId" \in DOMAIN r.filters
                  /\ {y \in OwnSystems(t) : y.id = r.filters.systemId} = {}
               THEN r.status = NotFoundStatus
               ELSE LET hits == {g \in OwnSongs(t) :
                                   /\ ("systemId" \in DOMAIN r.filters)
                                        => g \in OwnCatalog(t, r.filters.systemId)
                                   /\ SearchApplies(r.filters)
                                        => SearchMatches(g, r.filters.search)}
                    IN /\ r.status = OkStatus
                       /\ r.total = Cardinality(hits)
                       /\ r.songs \subseteq {SongSelected(g) : g \in hits}
       [] r.op = "exportSongs" ->
            /\ after = OwnSongs(t)
            /\ IF {y \in OwnSystems(t) : y.id = r.systemId} = {}
               THEN r.status = NotFoundStatus
               ELSE r.status = OkStatus /\ r.songs = Selected(OwnCatalog(t, r.systemId))
       [] r.op = "deleteSong" ->
            IF {g \in OwnSongs(t) : g.id = r.songId} = {}
            THEN r.status = NotFoundStatus /\ after = OwnSongs(t)
            ELSE /\ r.status = NoContentStatus
                 /\ after = {g \in OwnSongs(t) : g.id # r.songId}
       [] r.op = "deleteBulkSongs" ->
            IF {y \in OwnSystems(t) : y.id = r.systemId} = {}
            THEN r.status = NotFoundStatus /\ after = OwnSongs(t)
            ELSE /\ r.status = OkStatus
                 /\ r.deletedCount = Cardinality(OwnCatalog(t, r.systemId))
                 /\ after = OwnSongs(t) \ OwnCatalog(t, r.systemId)

\* C30: the reply to bulkImport, searchSongs, exportSongs, deleteSong and deleteBulkSongs
\* and the change to the caller's entries follow from the caller's own systems and
\* entries alone, so they are the same in two states that differ in other tenants'
\* systems and entries only; the call changes no system and no entry of another tenant,
\* also when that tenant runs a system with the same legacy id.
C30_CatalogCallsStayInTenant ==
  [][last'.op \in CatalogOps =>
       /\ systems' = systems
       /\ \A g \in (songs \ songs') \cup (songs' \ songs) : g.customerProfileId = last'.caller
       /\ FromOwnData(last', {g \in songs' : g.customerProfileId = last'.caller})]_vars

\* An import skipped nothing and stored a song that the other tenant holds under the
\* same legacy system id and the same normalized form.
C30_Witness ==
  /\ last.op = "bulkImport"
  /\ last.status = OkStatus
  /\ last.skipped = 0
  /\ \E g, h \in songs : /\ g.customerProfileId = last.caller
                         /\ h.customerProfileId # last.caller
                         /\ h.openkjSystemId = g.openkjSystemId
                         /\ h.normalizedCombined = g.normalizedCombined
                         /\ h.id < g.id

\* A deletion of a system's songs left the other tenant's songs of the same legacy
\* system id stored.
C30_WitnessDelete ==
  /\ last.op = "deleteBulkSongs"
  /\ last.status = OkStatus
  /\ last.deletedCount > 0
  /\ \E h \in songs : \E y \in OwnSystems(last.caller) :
       /\ y.id = last.systemId
       /\ h.customerProfileId # last.caller
       /\ h.openkjSystemId = y.openkjSystemId

====
